---- MODULE Spec2Model ----
(***************************************************************************)
(* Model of the Potbot / CivicSight backend pipeline:                      *)
(*   main.py                    submit_civic_issue (the orchestrator)      *)
(*   image_agent.py             analyze_image_with_groq (classification)   *)
(*   form_submission_agent.py   FormSubmissionAgent (city submission)      *)
(*   brightdata_search.py       search_reporting_form (discovery)          *)
(*   playwright_integration.py  PlaywrightIntegration (form automation)    *)
(*   social_media_agent.py      publish_civic_issue_to_social_media        *)
(*                                                                         *)
(* Conventions.  Confidence values and thresholds are percentages (the     *)
(* source's 0.6 is 60).  Relevance scores are doubled (the source's +0.5   *)
(* is +1).  A Python None is NULL for text fields and NullId for           *)
(* identifiers.  A text is the sequence of its characters where the code   *)
(* looks inside it (category normalisation), and a digit run is its length *)
(* where the code only measures it (tracking numbers).                     *)
(***************************************************************************)
EXTENDS Integers, Sequences, FiniteSets, TLC

VARIABLES
    pc,                      \* position of the request handler submit_civic_issue
    tracking_id,             \* main.py:148, the generated uuid
    analysis_results,        \* main.py:160, result of analyze_image_with_agent
    form_submission_result,  \* main.py:192, result of submit_civic_issue_to_city
    social_media_result,     \* main.py:215, result of the first publish call
    search,                  \* locals of search_reporting_form while it polls
    form_search_result,      \* main.py:258, result of search_reporting_form
    playwright_result,       \* main.py:285, result of submit_to_sfgov
    response,                \* main.py:171/355/378, the PipelineResponse
    http_error,              \* status code of a raised HTTPException, or 0
    reports_db,              \* main.py:111, the in-memory dict
    store,                   \* the rows inserted into the Supabase table
    calls,                   \* history: the stage calls of this run, in order
    fn_in,                   \* input of the pure function under check
    fn_out,                  \* its result
    runs                     \* the requests in flight at once, each with the
                             \* locals of its handler

vars == <<pc, tracking_id, analysis_results, form_submission_result,
          social_media_result, search, form_search_result, playwright_result,
          response, http_error, reports_db, store, calls, fn_in, fn_out,
          runs>>

pipeline_vars == <<pc, tracking_id, analysis_results, form_submission_result,
                   social_media_result, search, form_search_result,
                   playwright_result, response, http_error, reports_db, store,
                   calls, runs>>

\* Python None in a text field.
NULL == "null"

\* Python None in an identifier field (tracking number, tracking id).
NullId == [kind |-> "null", prefix |-> "", len |-> 0]

\* An identifier: what kind of text it is, its prefix, and the number of
\* characters (uuid) or digits (all others) that follow the prefix.
Id(kind, prefix, len) == [kind |-> kind, prefix |-> prefix, len |-> len]

\* Python truthiness of an optional identifier (`if tracking_number:`).
Truthy(id) == id # NullId /\ (id.len > 0 \/ id.prefix # "")

\* A value not assigned yet (the local does not exist).
UNSET == [set |-> FALSE]

Min(S) == CHOOSE x \in S : \A y \in S : x <= y

Range(s) == {s[i] : i \in DOMAIN s}

(***************************************************************************)
(* Classification: image_agent.py                                          *)
(***************************************************************************)

VALID_CATEGORIES ==
    <<"Road Crack", "Sidewalk Crack", "Graffiti", "Overflowing Trash",
      "Faded Street Markings", "Broken Street Light", "Fallen Tree", "None">>

\* The characters of the texts the model passes through category
\* normalisation.
Chars(s) ==
    CASE s = "Road Crack" -> <<"R","o","a","d"," ","C","r","a","c","k">>
      [] s = "Sidewalk Crack" ->
            <<"S","i","d","e","w","a","l","k"," ","C","r","a","c","k">>
      [] s = "Graffiti" -> <<"G","r","a","f","f","i","t","i">>
      [] s = "Overflowing Trash" ->
            <<"O","v","e","r","f","l","o","w","i","n","g"," ","T","r","a","s","h">>
      [] s = "Faded Street Markings" ->
            <<"F","a","d","e","d"," ","S","t","r","e","e","t"," ",
              "M","a","r","k","i","n","g","s">>
      [] s = "Broken Street Light" ->
            <<"B","r","o","k","e","n"," ","S","t","r","e","e","t"," ",
              "L","i","g","h","t">>
      [] s = "Fallen Tree" -> <<"F","a","l","l","e","n"," ","T","r","e","e">>
      [] s = "None" -> <<"N","o","n","e">>
      [] s = "none" -> <<"n","o","n","e">>
      [] s = "N/A" -> <<"N","/","A">>
      [] s = "No Issue" -> <<"N","o"," ","I","s","s","u","e">>
      [] s = "road crack" -> <<"r","o","a","d"," ","c","r","a","c","k">>
      [] s = "Crack" -> <<"C","r","a","c","k">>
      [] s = "Graffiti Tag" -> <<"G","r","a","f","f","i","t","i"," ","T","a","g">>
      [] s = "Pothole" -> <<"P","o","t","h","o","l","e">>
      [] s = "Tree" -> <<"T","r","e","e">>
      [] s = "" -> <<>>

\* str.lower() on one character.
LowerChar(c) ==
    CASE c = "A" -> "a" [] c = "B" -> "b" [] c = "C" -> "c" [] c = "F" -> "f"
      [] c = "G" -> "g" [] c = "I" -> "i" [] c = "L" -> "l" [] c = "M" -> "m"
      [] c = "N" -> "n" [] c = "O" -> "o" [] c = "P" -> "p" [] c = "R" -> "r"
      [] c = "S" -> "s" [] c = "T" -> "t"
      [] OTHER -> c

Lower(s) == [i \in DOMAIN s |-> LowerChar(s[i])]

\* Python's `a in b` on two texts.
IsSubstr(a, b) ==
    \E i \in 0..(Len(b) - Len(a)) : SubSeq(b, i + 1, i + Len(a)) = a

\* image_agent.py:486, the spellings of "no issue".
NoneVariations ==
    {<<"n","o","n","e">>, <<"n","o"," ","i","s","s","u","e">>,
     <<"n","o","t"," ","a","p","p","l","i","c","a","b","l","e">>,
     <<"n","/","a">>}

\* image_agent.py:483-502 without the default: a category that matches
\* no valid one is kept as the provider gave it.
Mut_NormalizeCategory(raw) ==
    LET c1 == IF Lower(Chars(raw)) \in NoneVariations THEN "None" ELSE raw
        cl == Lower(Chars(c1))
        hits == {i \in DOMAIN VALID_CATEGORIES :
                    LET v == Lower(Chars(VALID_CATEGORIES[i]))
                    IN  IsSubstr(v, cl) \/ IsSubstr(cl, v)}
    IN  IF c1 \in Range(VALID_CATEGORIES) THEN c1
        ELSE IF hits # {} THEN VALID_CATEGORIES[Min(hits)]
        ELSE raw

\* image_agent.py:483-502.
NormalizeCategory(raw) ==
    LET c1 == IF Lower(Chars(raw)) \in NoneVariations THEN "None" ELSE raw
        cl == Lower(Chars(c1))
        hits == {i \in DOMAIN VALID_CATEGORIES :
                    LET v == Lower(Chars(VALID_CATEGORIES[i]))
                    IN  IsSubstr(v, cl) \/ IsSubstr(cl, v)}
    IN  IF c1 \in Range(VALID_CATEGORIES) THEN c1
        ELSE IF hits # {} THEN VALID_CATEGORIES[Min(hits)]
        ELSE "None"

\* image_agent.py:506, min(max(confidence, 0.0), 1.0).
ClampConfidence(c) == IF c < 0 THEN 0 ELSE IF c > 100 THEN 100 ELSE c

\* image_agent.py:510, the default of CONFIDENCE_THRESHOLD.
DefaultThreshold == 60

\* image_agent.py:514 with the configured threshold ignored in favour of
\* the default one.
MutLowConfidence(category, confidence, threshold) ==
    category # "None" /\ confidence < DefaultThreshold

\* image_agent.py:514.
LowConfidence(category, confidence, threshold) ==
    category # "None" /\ confidence < threshold

\* image_agent.py:482-531: the classification built from the provider's
\* category and confidence under a threshold.
analyze_image_with_groq(raw, conf, threshold) ==
    LET category == NormalizeCategory(raw)
        confidence == ClampConfidence(conf)
    IN  IF LowConfidence(category, confidence, threshold)
        THEN [category |-> "None", confidence |-> 0,
              Text_Description |-> "low_confidence"]
        ELSE [category |-> category, confidence |-> confidence,
              Text_Description |-> "provider"]

(***************************************************************************)
(* City submission ("Agent #2"): form_submission_agent.py                  *)
(***************************************************************************)

\* form_submission_agent.py:159-226.  geo is the geocoding provider's
\* answer: kind "ok" (HTTP 200), "http_error" or "exception"; city is the
\* first of city/town/village in the answer, NULL when it has none.
_reverse_geocode(geo) ==
    IF geo.kind = "ok"
    THEN [success |-> TRUE,
          city |-> IF geo.city = NULL THEN "San Francisco" ELSE geo.city,
          state |-> "CA"]
    ELSE [success |-> FALSE, city |-> "Unknown", state |-> "CA"]

\* form_submission_agent.py:406-423: prefix-year-six digits.
_generate_tracking_number(city, prefix) ==
    Id("generated",
       IF prefix # NULL THEN prefix
       ELSE IF city = "San Francisco" THEN "SF311"
       ELSE IF city = "Oakland" THEN "OAK311"
       ELSE IF city = "Berkeley" THEN "BERK311"
       ELSE "CITY311",
       6)

\* form_submission_agent.py:425-430: DEMO311-year-last six of the id.
_generate_fallback_tracking_number(tid) == Id("fallback", "DEMO311", 6)

\* form_submission_agent.py:297-368.  api is the 311 API's answer.
_submit_to_sf311_api(api) ==
    IF api = "200"
    THEN [success |-> TRUE, tracking_number |-> Id("api", "", 12),
          method |-> "sf311_api"]
    ELSE [success |-> TRUE,
          tracking_number |-> _generate_tracking_number("San Francisco", "SF"),
          method |-> "fallback"]

\* form_submission_agent.py:241-295 with a failure where no API serves the
\* city.
Mut_submit_to_city(city, sf_311_api_key, api) ==
    IF city = "San Francisco" /\ sf_311_api_key
    THEN _submit_to_sf311_api(api)
    ELSE IF city \in {"Oakland", "Berkeley"}
    THEN [success |-> TRUE,
          tracking_number |-> _generate_tracking_number(city, "SCF"),
          method |-> "demo"]
    ELSE [success |-> FALSE, tracking_number |-> NullId, method |-> "none"]

\* form_submission_agent.py:241-295.
_submit_to_city(city, sf_311_api_key, api) ==
    IF city = "San Francisco" /\ sf_311_api_key
    THEN _submit_to_sf311_api(api)
    ELSE IF city \in {"Oakland", "Berkeley"}
    THEN [success |-> TRUE,
          tracking_number |-> _generate_tracking_number(city, "SCF"),
          method |-> "demo"]
    ELSE [success |-> TRUE,
          tracking_number |-> _generate_tracking_number(city, "tracking_id"),
          method |-> "demo"]

\* form_submission_agent.py:54-157, FormSubmissionAgent.submit_civic_issue.
submit_civic_issue_to_city(tid, geo, sf_311_api_key, api) ==
    LET address_data == _reverse_geocode(geo)
        submission_result ==
            _submit_to_city(address_data.city, sf_311_api_key, api)
    IN  IF address_data.success /\ submission_result.success
        THEN [success |-> TRUE,
              tracking_number |-> submission_result.tracking_number,
              city |-> address_data.city,
              submission_method |-> submission_result.method]
        ELSE [success |-> FALSE,
              tracking_number |-> _generate_fallback_tracking_number(tid),
              city |-> "Unknown",
              submission_method |-> "fallback"]

(***************************************************************************)
(* Amplification ("Agent #3"): social_media_agent.py                       *)
(***************************************************************************)

\* social_media_agent.py:63-148 and 320-358.  published is the outcome of
\* _publish_to_twitter; every exception is caught and becomes a failure.
publish_civic_issue_to_social_media(published) ==
    [success |-> published,
     post_url |-> IF published THEN "https://twitter.com/potbot/status/1"
                  ELSE NULL]

\* A text is the sequence of the pieces it was put together from; a piece
\* is what it came from and its length in characters (len()).  A piece cut
\* by a slice keeps its origin and has the shorter length.
Piece(part, n) == [part |-> part, n |-> n]

RECURSIVE TextLen(_)
TextLen(text) ==
    IF text = <<>> THEN 0 ELSE Head(text).n + TextLen(Tail(text))

\* text[:k]
RECURSIVE Take(_, _)
Take(text, k) ==
    IF text = <<>> \/ k <= 0 THEN <<>>
    ELSE IF Head(text).n <= k
    THEN <<Head(text)>> \o Take(Tail(text), k - Head(text).n)
    ELSE <<Piece(Head(text).part, k)>>

\* "\n".join(post_parts)
RECURSIVE JoinLines(_)
JoinLines(post_parts) ==
    IF post_parts = <<>> THEN <<>>
    ELSE IF Len(post_parts) = 1 THEN post_parts
    ELSE <<Head(post_parts), Piece(<<"newline">>, 1)>>
         \o JoinLines(Tail(post_parts))

\* social_media_agent.py:220/225/232, the length limit of a post.
TwitterLimit == 280

\* social_media_agent.py:178-188: len() of the emoji of a category.
category_emojis(category) ==
    CASE category = "Road Crack" -> 3
      [] category = "Sidewalk Crack" -> 6
      [] category = "Graffiti" -> 2
      [] category = "Overflowing Trash" -> 4
      [] category = "Faded Street Markings" -> 3
      [] category = "Broken Street Light" -> 2
      [] category = "Fallen Tree" -> 3
      [] OTHER -> 1

\* social_media_agent.py:190-196.
Header(category, emoji_style) ==
    LET emoji == category_emojis(category)
        name == Len(Chars(category))
    IN  Piece(<<"header", emoji_style, category>>,
              IF emoji_style = "high" THEN emoji + 1 + name + 10 + emoji
              ELSE IF emoji_style = "low" THEN name + 12
              ELSE emoji + 1 + name + 9)

\* social_media_agent.py:199 and 227-228.  An address is the length of
\* its part before the first comma (street) and the length of the rest,
\* comma included (0 when it has no comma).
LocationLine(address) ==
    Piece(<<"location", "address">>, 2 + address.street + address.rest)

ShortLocationLine(address) ==
    Piece(<<"location", "short_address">>, 2 + address.street)

\* social_media_agent.py:202; tracking_number is the length of its text.
TrackingLine(tracking_number) ==
    Piece(<<"tracking">>, 17 + tracking_number)

\* social_media_agent.py:204-210.
Cta(cta_style) ==
    Piece(<<"cta", cta_style>>,
          IF cta_style = "urgent" THEN 44
          ELSE IF cta_style = "community" THEN 37
          ELSE 18)

RECURSIVE SumSeq(_)
SumSeq(ns) == IF ns = <<>> THEN 0 ELSE Head(ns) + SumSeq(Tail(ns))

\* social_media_agent.py:173 and 213: "#tag" for the first three tags,
\* joined by spaces.  A tag is the length of its text.
Hashtags(viral_insights) ==
    LET top_hashtags == IF viral_insights.has_tags
                        THEN viral_insights.top_hashtags
                        ELSE <<13, 11>>
        tags == SubSeq(top_hashtags, 1, Min({3, Len(top_hashtags)}))
    IN  Piece(<<"hashtags">>,
              SumSeq(tags) + Len(tags)
              + (IF tags = <<>> THEN 0 ELSE Len(tags) - 1))

\* social_media_agent.py:232 without the slice.
MutHardLimit(post_text) == post_text

\* social_media_agent.py:232, post_text[:280].
HardLimit(post_text) == Take(post_text, TwitterLimit)

\* social_media_agent.py:150-232 with the address shortened before the
\* call to action is dropped.
Mut_generate_optimized_post(category, address, tracking_number, viral_insights) ==
    LET header == Header(category, viral_insights.emoji_usage)
        tracking_line == TrackingLine(tracking_number)
        cta == Cta(viral_insights.cta_style)
        hashtags == Hashtags(viral_insights)
        text1 == JoinLines(<<header, LocationLine(address), tracking_line,
                             cta, hashtags>>)
        text2 == IF TextLen(text1) > TwitterLimit
                 THEN JoinLines(<<header, ShortLocationLine(address),
                                  tracking_line, cta, hashtags>>)
                 ELSE text1
        text3 == IF TextLen(text2) > TwitterLimit
                 THEN JoinLines(<<header, ShortLocationLine(address),
                                  tracking_line, hashtags>>)
                 ELSE text2
    IN  HardLimit(text3)

\* social_media_agent.py:150-232.
_generate_optimized_post(category, address, tracking_number, viral_insights) ==
    LET header == Header(category, viral_insights.emoji_usage)
        tracking_line == TrackingLine(tracking_number)
        cta == Cta(viral_insights.cta_style)
        hashtags == Hashtags(viral_insights)
        text1 == JoinLines(<<header, LocationLine(address), tracking_line,
                             cta, hashtags>>)
        text2 == IF TextLen(text1) > TwitterLimit
                 THEN JoinLines(<<header, LocationLine(address),
                                  tracking_line, hashtags>>)
                 ELSE text1
        text3 == IF TextLen(text2) > TwitterLimit
                 THEN JoinLines(<<header, ShortLocationLine(address),
                                  tracking_line, hashtags>>)
                 ELSE text2
    IN  HardLimit(text3)

(***************************************************************************)
(* Style hints: applovin_analyzer.py                                       *)
(***************************************************************************)

\* The style hints a post is composed from: the hashtags by the length of
\* their text, the emoji class and the call-to-action class.
Insights(top_hashtags, emoji_usage, cta_style) ==
    [has_tags |-> TRUE, top_hashtags |-> top_hashtags,
     emoji_usage |-> emoji_usage, cta_style |-> cta_style]

\* applovin_analyzer.py:110-116.  An address is None (none is true) or
\* the parts address.split(",") gives, stripped.
_extract_city_from_address(address) ==
    IF Len(address.parts) >= 2 THEN address.parts[2] ELSE "San Francisco"

\* applovin_analyzer.py:584-597: FixSF, SF311, SafeStreetsSF, CivicTechSF,
\* VisionZero; FixOakland, Oakland311, OaklandCares.
city_insights(city) ==
    IF city = "Oakland"
    THEN Insights(<<10, 10, 12>>, "high", "community")
    ELSE Insights(<<5, 5, 13, 11, 10>>, "moderate", "direct")

\* applovin_analyzer.py:576-633: the entry of the city, the entry of San
\* Francisco for a city without one.
_get_mock_insights(city) ==
    IF city \in {"San Francisco", "Oakland"} THEN city_insights(city)
    ELSE city_insights("San Francisco")

\* applovin_analyzer.py:635-649: FixOurStreets, CivicAction,
\* CommunityFirst.
_get_default_insights == Insights(<<13, 11, 14>>, "moderate", "direct")

\* The posts a feature extraction works on, by what it computes from
\* them: their number, ten times the average emoji count, the percentage
\* with a call to action, the hashtags by falling frequency; malformed
\* when reading a post raises.
Posts(n, avg_emoji, cta_ratio, hashtags, malformed) ==
    [n |-> n, avg_emoji |-> avg_emoji, cta_ratio |-> cta_ratio,
     hashtags |-> hashtags, malformed |-> malformed]

\* applovin_analyzer.py:394-416, popular_hashtags of city_patterns.
popular_hashtags(city) ==
    IF city = "Oakland" THEN <<10, 10, 12, 7>>
    ELSE IF city = "Berkeley" THEN <<11, 11, 16>>
    ELSE <<5, 5, 13, 12, 11>>

Reverse(s) == [i \in 1..Len(s) |-> s[Len(s) + 1 - i]]

\* applovin_analyzer.py:379-483: between 127 and 856 random posts; rand
\* is what the random draws come to.
_generate_enhanced_mock_data(city, rand) ==
    Posts(127, rand.avg_emoji, rand.cta_ratio,
          IF rand.reversed THEN Reverse(popular_hashtags(city))
          ELSE popular_hashtags(city),
          FALSE)

\* applovin_analyzer.py:485-574; the caller sees an exception as
\* [raised |-> TRUE].
_extract_viral_features(viral_posts) ==
    IF viral_posts.n = 0
    THEN [raised |-> FALSE, insights |-> _get_default_insights]
    ELSE IF viral_posts.malformed THEN [raised |-> TRUE]
    ELSE [raised |-> FALSE,
          insights |->
              Insights(SubSeq(viral_posts.hashtags, 1,
                              Min({5, Len(viral_posts.hashtags)})),
                       IF viral_posts.avg_emoji > 40 THEN "high"
                       ELSE IF viral_posts.avg_emoji > 20 THEN "moderate"
                       ELSE "low",
                       IF viral_posts.cta_ratio > 70 THEN "urgent"
                       ELSE IF viral_posts.cta_ratio > 40 THEN "direct"
                       ELSE "community")]

\* applovin_analyzer.py:118-227.  api is the provider's answer: its
\* posts, or "error" for a status other than 200 or an exception of the
\* request.
_fetch_viral_posts_from_applovin(city, api, rand) ==
    IF api.kind = "error" \/ api.posts.n = 0
    THEN _generate_enhanced_mock_data(city, rand)
    ELSE api.posts

\* applovin_analyzer.py:276-329.  corpus is "missing", "features" (the
\* corpus file of the district exists and features are extracted from it)
\* or "broken" (reading it raises).
_get_insights_from_corpus(city, extractor_available, corpus) ==
    IF extractor_available /\ corpus.kind = "features"
    THEN [source |-> "corpus", insights |-> corpus.features]
    ELSE [source |-> "mock_insights", insights |-> _get_mock_insights(city)]

\* applovin_analyzer.py:48-108 and 656-674.  env holds what the call
\* finds: api_key, the provider's answer api, the random draws rand,
\* FEATURE_EXTRACTOR_AVAILABLE and the corpus.
analyze_viral_posts_in_area(address, env) ==
    IF address.none
    THEN [raised |-> TRUE, error |-> "AttributeError"]
    ELSE LET city == _extract_city_from_address(address)
             from_corpus ==
                 _get_insights_from_corpus(city, env.extractor_available,
                                           env.corpus)
             features ==
                 _extract_viral_features(
                     _fetch_viral_posts_from_applovin(city, env.api,
                                                      env.rand))
         IN  IF env.api_key /\ ~features.raised
             THEN [raised |-> FALSE, source |-> "posts",
                   insights |-> features.insights]
             ELSE [raised |-> FALSE, source |-> from_corpus.source,
                   insights |-> from_corpus.insights]

(***************************************************************************)
(* Discovery: brightdata_search.py                                         *)
(***************************************************************************)

\* brightdata_search.py:159.
max_retries == 30

\* brightdata_search.py:160, seconds slept before each attempt.
retry_delay == 3

\* brightdata_search.py:278/305/316, results[:10].
TopN == 10

\* Largest number of results in a provider answer of the model.
MaxResults == 2

\* One search result of a provider answer.  link is "" when the result has
\* none; the flags say what the code's substring tests find in it: gov
\* (".gov" in the url), kw ("report", "form" or "submit" in the title), h311
\* ("311" in title or url), cityUrl and cityTitle (the city name in them).
Result(title, link, gov, kw, h311, cityUrl, cityTitle) ==
    [title |-> title, link |-> link, gov |-> gov, kw |-> kw, h311 |-> h311,
     cityUrl |-> cityUrl, cityTitle |-> cityTitle]

SampleResults ==
    {Result("Potholes blog", "https://example.com/potholes",
            FALSE, FALSE, FALSE, FALSE, FALSE),
     Result("Public Works", "https://publicworks.gov/streets",
            TRUE, FALSE, FALSE, FALSE, FALSE),
     Result("San Francisco 311 report form", "https://sanfrancisco.gov/311",
            TRUE, TRUE, TRUE, TRUE, TRUE),
     Result("Untitled listing", "", FALSE, FALSE, FALSE, FALSE, FALSE)}

SeqsUpTo(S, n) == UNION {[1..k -> S] : k \in 0..n}

\* data = None: no answer was stored yet.
NoData == [shape |-> "None", results |-> <<>>]

\* The provider answers of the model.  shape "empty" is [] or {}; "list"
\* is a list whose first item holds the results under 'organic';
\* "list_other" is a list without that key; "legacy" is a dict that holds
\* them under 'organic_results' or 'results'; "dict_other" is any other
\* dict.
ProviderData ==
    {[shape |-> "empty", results |-> <<>>],
     [shape |-> "list_other", results |-> <<>>],
     [shape |-> "dict_other", results |-> <<>>]}
    \cup {[shape |-> sh, results |-> rs] :
            sh \in {"list", "legacy"},
            rs \in SeqsUpTo(SampleResults, MaxResults)}

\* Python truthiness of data (brightdata_search.py:178 and 187).
HasData(data) == data.shape \notin {"None", "empty"}

\* brightdata_search.py:342-393, with the score doubled.  rank is the
\* result's 'rank' field (10 when the result has none).
calculate_relevance(result, rank) ==
    2 * (11 - rank)
    + (IF result.gov THEN 10 ELSE 0)
    + (IF result.kw THEN 4 ELSE 0)
    + (IF result.h311 THEN 3 ELSE 0)
    + (IF result.cityUrl THEN 2 ELSE 0)
    + (IF result.cityTitle THEN 1 ELSE 0)

\* A sort by descending score that puts equal scores in reverse order.
RECURSIVE MutSortByScore(_)
MutSortByScore(links) ==
    IF Len(links) <= 1 THEN links
    ELSE LET top == {i \in DOMAIN links :
                        \A j \in DOMAIN links :
                           links[j].relevance_score
                               <= links[i].relevance_score}
             best == CHOOSE i \in top : \A j \in top : j <= i
             rest == [k \in 1..(Len(links) - 1) |->
                        IF k < best THEN links[k] ELSE links[k + 1]]
         IN  <<links[best]>> \o MutSortByScore(rest)

\* list.sort(key=relevance_score, reverse=True): a stable sort, equal
\* scores keep their order.
RECURSIVE SortByScore(_)
SortByScore(links) ==
    IF Len(links) <= 1 THEN links
    ELSE LET best == Min({i \in DOMAIN links :
                            \A j \in DOMAIN links :
                               links[j].relevance_score
                                   <= links[i].relevance_score})
             rest == [k \in 1..(Len(links) - 1) |->
                        IF k < best THEN links[k] ELSE links[k + 1]]
         IN  <<links[best]>> \o SortByScore(rest)

Head10(rs) == SubSeq(rs, 1, IF Len(rs) < TopN THEN Len(rs) ELSE TopN)

\* brightdata_search.py:278-295, one result of the 'organic' list.
Link(result, rank, score_rank) ==
    [title |-> result.title, url |-> result.link, gov |-> result.gov,
     google_rank |-> rank,
     relevance_score |-> calculate_relevance(result, score_rank)]

\* brightdata_search.py:260-327: the links gathered from the answer, in the
\* provider's order, before the sort.
gathered_links(data) ==
    LET rs == Head10(data.results)
    IN  IF data.shape = "list"
        THEN LET keep == {i \in DOMAIN rs :
                            rs[i].link # "" /\ rs[i].title # ""}
                 RECURSIVE Collect(_)
                 Collect(i) ==
                    IF i > Len(rs) THEN <<>>
                    ELSE (IF i \in keep
                          THEN <<Link(rs[i], i, i)>> ELSE <<>>)
                         \o Collect(i + 1)
             IN  Collect(1)
        ELSE IF data.shape = "legacy"
        THEN [i \in DOMAIN rs |-> Link(rs[i], 0, 10)]
        ELSE <<>>

\* brightdata_search.py:249-339.
extract_form_links(data) == SortByScore(gathered_links(data))

\* top_link = None.
NoLink == [title |-> "", url |-> NULL, gov |-> FALSE, google_rank |-> 0,
           relevance_score |-> 0]

\* brightdata_search.py:187-216: the result built from the polled data.
SearchResult(data) ==
    IF ~HasData(data)
    THEN [success |-> FALSE, error |-> "results not ready",
          top_link |-> NoLink, all_links |-> <<>>]
    ELSE LET form_links == extract_form_links(data)
             gov_links == SelectSeq(form_links, LAMBDA l : l.gov)
         IN  [success |-> TRUE, error |-> NULL,
              top_link |-> IF gov_links # <<>> THEN gov_links[1]
                           ELSE IF form_links # <<>> THEN form_links[1]
                           ELSE NoLink,
              all_links |-> form_links]

\* brightdata_search.py:76-152 and 218-246: a failure before or while
\* polling.
SearchFailure(error) ==
    [success |-> FALSE, error |-> error, top_link |-> NoLink,
     all_links |-> <<>>]

(***************************************************************************)
(* Form automation: playwright_integration.py                              *)
(***************************************************************************)

\* playwright_integration.py:48-53 with a script for every category.
Mut_category_to_script ==
    {"Road Crack", "Sidewalk Crack", "Graffiti", "Fallen Tree",
     "Overflowing Trash", "Faded Street Markings", "Broken Street Light"}

\* playwright_integration.py:48-53, the keys of category_to_script.
category_to_script ==
    {"Road Crack", "Sidewalk Crack", "Graffiti", "Fallen Tree"}

\* playwright_integration.py:246, the least length of a tracking number.
MinTrackingDigits == 8

\* Largest number of lines in a subprocess output of the model.
MaxLines == 2

\* One line of the subprocess's stdout: a label followed by a run of n
\* digits (n = 0: no digits).  Labels: "json" is
\* "serviceRequestNumber": "<digits>"; "js" is serviceRequestNumber: <digits>;
\* "service_request" is Service Request: <digits>; "request", "tracking",
\* "case", "sr" likewise; "number" is number: <digits>; "bare" is a digit
\* run with no label the patterns know.
Line(label, n) == [label |-> label, n |-> n]

\* playwright_integration.py:228-239: the token pattern p captures on a
\* line, 0 when the pattern does not match the line.
PatternToken(p, line) ==
    LET n == line.n
        lab == line.label
    IN  CASE p = 1 -> IF lab = "json" /\ n >= 1 THEN n ELSE 0
          [] p = 2 -> IF lab \in {"json", "js"} /\ n >= 1 THEN n ELSE 0
          [] p = 3 -> IF lab = "service_request" /\ n >= 1 THEN n ELSE 0
          [] p = 4 -> IF lab \in {"service_request", "request"} /\ n >= 1
                      THEN n ELSE 0
          [] p = 5 -> IF lab = "tracking" /\ n >= 1 THEN n ELSE 0
          [] p = 6 -> IF lab = "case" /\ n >= 1 THEN n ELSE 0
          [] p = 7 -> IF lab = "sr" /\ n >= 1 THEN n ELSE 0
          [] p = 8 -> IF lab \in {"json", "js", "number"} /\ n >= 10
                      THEN n ELSE 0
          [] p = 9 -> IF n >= 12 THEN 12 ELSE 0
          [] p = 10 -> IF n >= 10 THEN (IF n > 15 THEN 15 ELSE n) ELSE 0

\* The number of patterns in playwright_integration.py:228-239.
NPatterns == 10

\* re.search(pattern, output): the capture of the leftmost match, 0 when
\* the pattern matches nowhere.
SearchToken(p, output) ==
    LET at == {i \in DOMAIN output : PatternToken(p, output[i]) > 0}
    IN  IF at = {} THEN 0 ELSE PatternToken(p, output[Min(at)])

\* playwright_integration.py:217-252 without the length validation: the
\* token of the first pattern that matches.
Mut_extract_tracking_number(output) ==
    LET hit == {p \in 1..NPatterns : SearchToken(p, output) > 0}
    IN  IF hit = {} THEN NullId
        ELSE Id("digits", "", SearchToken(Min(hit), output))

\* playwright_integration.py:217-252: the length of the token returned, 0
\* for None.
extract_tracking_number(output) ==
    LET good == {p \in 1..NPatterns :
                    SearchToken(p, output) >= MinTrackingDigits}
    IN  IF good = {} THEN NullId
        ELSE Id("digits", "", SearchToken(Min(good), output))

\* The subprocess outputs of the model.
SampleLines ==
    {Line("json", 12), Line("request", 5), Line("bare", 11), Line("bare", 0)}

Outputs == SeqsUpTo(SampleLines, MaxLines)

\* The outcomes of running the automation script: the script file is
\* missing, the subprocess cannot be started, it times out, or it exits
\* with a return code and an output.
Runs ==
    {[kind |-> k, returncode |-> 0, stdout |-> <<>>] :
        k \in {"script_missing", "spawn_error", "timeout"}}
    \cup {[kind |-> "exit", returncode |-> rc, stdout |-> out] :
            rc \in {0, 1}, out \in Outputs}

\* playwright_integration.py:167-194 with a missing tracking number taken
\* for a failed submission.
MutExitOutcome(returncode, tracking_number) ==
    IF returncode # 0 \/ tracking_number = NullId
    THEN [success |-> FALSE, tracking_number |-> NullId,
          error |-> "script_failed", launched |-> 1]
    ELSE [success |-> TRUE, tracking_number |-> tracking_number,
          error |-> NULL, launched |-> 1]

\* playwright_integration.py:167-194 with the script run a second time
\* after a non-zero exit.
MutRetryExitOutcome(returncode, tracking_number) ==
    IF returncode # 0
    THEN [success |-> FALSE, tracking_number |-> NullId,
          error |-> "script_failed", launched |-> 2]
    ELSE [success |-> TRUE, tracking_number |-> tracking_number,
          error |-> NULL, launched |-> 1]

\* playwright_integration.py:167-194: the result once the subprocess has
\* exited; tracking_number is what extract_tracking_number found in stdout.
ExitOutcome(returncode, tracking_number) ==
    IF returncode # 0
    THEN [success |-> FALSE, tracking_number |-> NullId,
          error |-> "script_failed", launched |-> 1]
    ELSE [success |-> TRUE, tracking_number |-> tracking_number,
          error |-> NULL, launched |-> 1]

\* playwright_integration.py:107-215, PlaywrightIntegration.submit_form.
submit_form(category, run) ==
    IF category \notin category_to_script
    THEN [success |-> FALSE, tracking_number |-> NullId,
          error |-> "unknown_category", launched |-> 0]
    ELSE IF run.kind = "script_missing"
    THEN [success |-> FALSE, tracking_number |-> NullId,
          error |-> "file_not_found", launched |-> 0]
    ELSE IF run.kind = "spawn_error"
    THEN [success |-> FALSE, tracking_number |-> NullId,
          error |-> "file_not_found", launched |-> 0]
    ELSE IF run.kind = "timeout"
    THEN [success |-> FALSE, tracking_number |-> NullId,
          error |-> "timeout", launched |-> 1]
    ELSE ExitOutcome(run.returncode, extract_tracking_number(run.stdout))

(***************************************************************************)
(* The orchestrator: main.py, submit_civic_issue                           *)
(***************************************************************************)

\* confidence=None in a PipelineResponse (main.py:383).
NoConfidence == -1

\* One stage call of the run: the stage, the function called and how the
\* call ended ("pending" while it runs, then "success", "failure" for a
\* result with success false, or "raised").
Call(stage, fn, result) == [stage |-> stage, fn |-> fn, result |-> result]

\* A stage call that raised an exception; error is str(e).
RaisedCall(stage, fn, error) ==
    [stage |-> stage, fn |-> fn, result |-> "raised", error |-> error]

\* The exceptions analyze_image_with_groq raises (image_agent.py:100, 546
\* and 548-550) and the one PlaywrightIntegration() raises
\* (playwright_integration.py:33-34), by their descriptions.
ClassificationErrors ==
    {"GROQ_API_KEY not found in environment variables",
     "Invalid JSON response from Groq"}

IntegrationError == "Scripts directory not found"

\* main.py:95-106, the fields of PipelineResponse the stages decide.  A
\* message is the sequence of the parts its f-string is made of.
PipelineResponse(tid, status, message, issue_type, confidence, url, tn, post) ==
    [tracking_id |-> tid, status |-> status, message |-> message,
     issue_type |-> issue_type, confidence |-> confidence,
     reporting_url |-> url, tracking_number |-> tn,
     social_post_url |-> post]

\* main.py:168 with the category compared to the lower-case spelling.
MutIsRejected(analysis) == analysis.category = "none"

\* main.py:168, the spam / non-civic check.
IsRejected(analysis) == analysis.category = "None"

\* main.py:171-183 with the category kept as the issue type.
MutRejectedResponse(tid) ==
    [tracking_id |-> tid, status |-> "rejected",
     message |-> <<"Image rejected">>, issue_type |-> "None",
     confidence |-> 0, reporting_url |-> NULL, tracking_number |-> NullId,
     social_post_url |-> NULL]

\* main.py:171-183.
RejectedResponse(tid) ==
    PipelineResponse(tid, "rejected", <<"Image rejected">>, NULL, 0, NULL,
                     NullId, NULL)

\* main.py:372-390 with the exception's description left out of the
\* message.
MutErrorResponse(tid, error) ==
    [tracking_id |-> tid, status |-> "error",
     message |-> <<"Pipeline error">>, issue_type |-> NULL,
     confidence |-> NoConfidence, reporting_url |-> NULL,
     tracking_number |-> NullId, social_post_url |-> NULL]

\* main.py:372-390: the response for an exception whose str(e) is error.
ErrorResponse(tid, error) ==
    PipelineResponse(tid, "error", <<"Pipeline error", error>>, NULL,
                     NoConfidence, NULL, NullId, NULL)

\* main.py:295-367 with a failed publish call taking the submission back:
\* the status is "analyzed" and the tracking number is dropped.
MutSubmissionResponse(tid, analysis, reporting_url, pr, post_url) ==
    [tracking_id |-> tid,
     status |-> IF pr.success /\ post_url # NULL THEN "submitted"
                ELSE "analyzed",
     message |-> <<"Issue detected">>,
     issue_type |-> analysis.category, confidence |-> analysis.confidence,
     reporting_url |-> reporting_url,
     tracking_number |-> IF pr.success /\ post_url # NULL
                         THEN pr.tracking_number ELSE NullId,
     social_post_url |-> post_url]

\* main.py:295-367: the response after submit_to_sfgov returned pr and the
\* second publish call, if any, returned post_url.
SubmissionResponse(tid, analysis, reporting_url, pr, post_url) ==
    LET tracking_number ==
            IF pr.success THEN pr.tracking_number ELSE NullId
        posted == pr.success /\ Truthy(tracking_number) /\ post_url # NULL
    IN  PipelineResponse(
            IF pr.success /\ Truthy(tracking_number)
            THEN tracking_number ELSE tid,
            IF pr.success THEN "submitted" ELSE "analyzed",
            IF ~pr.success THEN <<"Form submission failed", pr.error>>
            ELSE IF posted THEN <<"Issue submitted! Tracking, Posted">>
            ELSE IF Truthy(tracking_number)
            THEN <<"Issue submitted successfully! Tracking number">>
            ELSE <<"Issue submitted successfully! Internal ID">>,
            analysis.category, analysis.confidence, reporting_url,
            tracking_number,
            IF posted THEN post_url ELSE NULL)

\* The provider answers a run of the pipeline classifies.
PipelineCategories == {"Road Crack", "Overflowing Trash", "None", "Pothole"}

PipelineConfidences == {30, 92}

\* The geocoding provider's answers.
GeoAnswers ==
    {[kind |-> "ok", city |-> c] :
        c \in {"San Francisco", "Oakland", "Austin", NULL}}
    \cup {[kind |-> k, city |-> NULL] : k \in {"http_error", "exception"}}

\* The ways search_reporting_form ends before polling
\* (brightdata_search.py:76-152), and "ok" when it goes on to poll.
SearchStarts == {"no_city", "no_api_key", "trigger_error", "no_snapshot", "ok"}

\* The answers to one poll request: HTTP 200 with data, 202, another
\* status, or an exception of the request.
PollAnswers ==
    {[status |-> 200, data |-> d] : d \in ProviderData}
    \cup {[status |-> st, data |-> NoData] : st \in {202, 404, 500}}
    \cup {[status |-> 0, data |-> NoData]}

UrlMissing(url) == url \in {NULL, ""}

Init ==
    /\ pc = "idle"
    /\ tracking_id = NullId
    /\ analysis_results = UNSET
    /\ form_submission_result = UNSET
    /\ social_media_result = UNSET
    /\ search = UNSET
    /\ form_search_result = UNSET
    /\ playwright_result = UNSET
    /\ response = UNSET
    /\ http_error = 0
    /\ reports_db = {}
    /\ store = <<>>
    /\ calls = <<>>
    /\ fn_in = UNSET
    /\ fn_out = UNSET
    /\ runs = <<>>

\* main.py:144-156: the request arrives and the tracking id is generated.
Receive ==
    /\ pc = "idle"
    /\ tracking_id' = Id("uuid", "", 36)
    /\ pc' = "classifying"
    /\ UNCHANGED <<analysis_results, form_submission_result,
                   social_media_result, search, form_search_result,
                   playwright_result, response, http_error, reports_db,
                   store, calls, fn_in, fn_out, runs>>

\* main.py:157-183 and 372-390: the classification call and the branch on
\* its category; a provider error ends the run in the error response.
Classify ==
    /\ pc = "classifying"
    /\ \/ \E e \in ClassificationErrors :
            /\ calls' = Append(calls, RaisedCall("classification",
                                       "analyze_image_with_agent", e))
            /\ response' = ErrorResponse(tracking_id, e)
            /\ pc' = "storing"
            /\ UNCHANGED analysis_results
       \/ \E raw \in PipelineCategories, conf \in PipelineConfidences :
            LET a == analyze_image_with_groq(raw, conf, DefaultThreshold)
            IN  /\ analysis_results' = a
                /\ calls' = Append(calls, Call("classification",
                                   "analyze_image_with_agent", "success"))
                /\ IF IsRejected(a)
                   THEN /\ response' = RejectedResponse(tracking_id)
                        /\ pc' = "storing"
                   ELSE /\ response' = response
                        /\ pc' = "agent2"
    /\ UNCHANGED <<tracking_id, form_submission_result, social_media_result,
                   search, form_search_result, playwright_result, http_error,
                   reports_db, store, fn_in, fn_out, runs>>

\* main.py:192-206: "Agent #2", the city submission.
Agent2Submit ==
    /\ pc = "agent2"
    /\ \E geo \in GeoAnswers, key \in BOOLEAN, api \in {"200", "error"} :
         LET r == submit_civic_issue_to_city(tracking_id, geo, key, api)
         IN  /\ form_submission_result' = r
             /\ calls' = Append(calls, Call("submission",
                                "submit_civic_issue_to_city",
                                IF r.success THEN "success" ELSE "failure"))
    /\ pc' = "agent3"
    /\ UNCHANGED <<tracking_id, analysis_results, social_media_result, search,
                   form_search_result, playwright_result, response, http_error,
                   reports_db, store, fn_in, fn_out, runs>>

\* main.py:215-236: "Agent #3", the first publish call.
Agent3Publish ==
    /\ pc = "agent3"
    /\ \E published \in BOOLEAN :
         LET r == publish_civic_issue_to_social_media(published)
         IN  /\ social_media_result' = r
             /\ calls' = Append(calls, Call("amplification",
                                "publish_civic_issue_to_social_media",
                                IF r.success THEN "success" ELSE "failure"))
    /\ pc' = "search"
    /\ UNCHANGED <<tracking_id, analysis_results, form_submission_result,
                   search, form_search_result, playwright_result, response,
                   http_error, reports_db, store, fn_in, fn_out, runs>>

\* main.py:264-281: the orchestrator's check of the search result r; it
\* raises HTTPException(500) when there is no form URL.
AfterSearch(r) ==
    /\ form_search_result' = r
    /\ calls' = [calls EXCEPT ![Len(calls)].result =
                    IF r.success THEN "success" ELSE "failure"]
    /\ IF ~r.success \/ UrlMissing(r.top_link.url)
       THEN /\ http_error' = 500
            /\ pc' = "raised"
       ELSE /\ http_error' = http_error
            /\ pc' = "submitting"

\* main.py:258 and brightdata_search.py:76-161: search_reporting_form is
\* called; it fails at once or triggers the search and starts to poll.
SearchStart ==
    /\ pc = "search"
    /\ \E start \in SearchStarts :
         IF start = "ok"
         THEN /\ calls' = Append(calls, Call("discovery",
                                 "search_reporting_form", "pending"))
              /\ search' = [attempt |-> 0, slept |-> 0, data |-> NoData,
                            last_status |-> 0, ready |-> FALSE]
              /\ pc' = "polling"
              /\ UNCHANGED <<form_search_result, http_error>>
         ELSE /\ search' = search
              /\ form_search_result' = SearchFailure(start)
              /\ calls' = Append(calls, Call("discovery",
                                 "search_reporting_form", "failure"))
              /\ http_error' = 500
              /\ pc' = "raised"
    /\ UNCHANGED <<tracking_id, analysis_results, form_submission_result,
                   social_media_result, playwright_result, response,
                   reports_db, store, fn_in, fn_out, runs>>

\* brightdata_search.py:163-185 as a loop that does not count its
\* attempts.
MutUncountedAttempt(s, answer) ==
    [attempt |-> s.attempt,
     slept |-> s.slept,
     data |-> IF answer.status = 200 THEN answer.data ELSE s.data,
     last_status |-> answer.status,
     ready |-> answer.status = 200 /\ HasData(answer.data)]

\* brightdata_search.py:163-185 without the break: the loop goes on after
\* an answer that holds results.
MutAttempt(s, answer) ==
    [attempt |-> s.attempt + 1,
     slept |-> s.slept + retry_delay,
     data |-> IF answer.status = 200 THEN answer.data ELSE s.data,
     last_status |-> answer.status,
     ready |-> FALSE]

\* brightdata_search.py:163-185: the loop's state after one attempt that
\* got an answer: the sleep, the request, and the break on a 200 answer
\* that holds data.  Any other status is printed and the loop goes on.
Attempt(s, answer) ==
    [attempt |-> s.attempt + 1,
     slept |-> s.slept + retry_delay,
     data |-> IF answer.status = 200 THEN answer.data ELSE s.data,
     last_status |-> answer.status,
     ready |-> answer.status = 200 /\ HasData(answer.data)]

\* brightdata_search.py:163-185: one attempt of the polling loop.
Poll ==
    /\ pc = "polling"
    /\ ~search.ready
    /\ search.attempt < max_retries
    /\ \E answer \in PollAnswers :
         IF answer.status = 0
         THEN /\ search' = UNSET
              /\ AfterSearch(SearchFailure("request_exception"))
         ELSE /\ search' = Attempt(search, answer)
              /\ UNCHANGED <<pc, form_search_result, http_error, calls>>
    /\ UNCHANGED <<tracking_id, analysis_results, form_submission_result,
                   social_media_result, playwright_result, response,
                   reports_db, store, fn_in, fn_out, runs>>

\* brightdata_search.py:187-216 and main.py:264-281: the loop has ended (a
\* break on data, or the attempts are exhausted) and the result is built.
SearchFinish ==
    /\ pc = "polling"
    /\ search.ready \/ search.attempt = max_retries
    /\ AfterSearch(SearchResult(search.data))
    /\ search' = UNSET
    /\ UNCHANGED <<tracking_id, analysis_results, form_submission_result,
                   social_media_result, playwright_result, response,
                   reports_db, store, fn_in, fn_out, runs>>

\* main.py:283-317 and 349-367: submit_to_sfgov.  integration_ok is false
\* when PlaywrightIntegration() raises (no scripts directory), which the
\* orchestrator turns into the error response.
SubmitSfgov ==
    /\ pc = "submitting"
    /\ \E integration_ok \in BOOLEAN, run \in Runs :
         IF ~integration_ok
         THEN /\ calls' = Append(calls,
                                 RaisedCall("submission", "submit_to_sfgov",
                                            IntegrationError))
              /\ response' = ErrorResponse(tracking_id, IntegrationError)
              /\ pc' = "storing"
              /\ UNCHANGED playwright_result
         ELSE LET pr == submit_form(analysis_results.category, run)
              IN  /\ playwright_result' = pr
                  /\ calls' = Append(calls,
                         Call("submission", "submit_to_sfgov",
                              IF pr.success THEN "success" ELSE "failure"))
                  /\ IF pr.success /\ Truthy(pr.tracking_number)
                     THEN /\ pc' = "amplifying"
                          /\ response' = response
                     ELSE /\ pc' = "storing"
                          /\ response' = SubmissionResponse(
                                 tracking_id, analysis_results,
                                 form_search_result.top_link.url, pr, NULL)
    /\ UNCHANGED <<tracking_id, analysis_results, form_submission_result,
                   social_media_result, search, form_search_result,
                   http_error, reports_db, store, fn_in, fn_out, runs>>

\* main.py:318-347 and 355-367: the second publish call, made when the
\* form submission returned a tracking number.
Amplify ==
    /\ pc = "amplifying"
    /\ \E published \in BOOLEAN :
         LET r == publish_civic_issue_to_social_media(published)
         IN  /\ social_media_result' = r
             /\ calls' = Append(calls, Call("amplification",
                                "publish_civic_issue_to_social_media",
                                IF r.success THEN "success" ELSE "failure"))
             /\ response' = SubmissionResponse(
                    tracking_id, analysis_results,
                    form_search_result.top_link.url, playwright_result,
                    IF r.success THEN r.post_url ELSE NULL)
    /\ pc' = "storing"
    /\ UNCHANGED <<tracking_id, analysis_results, form_submission_result,
                   search, form_search_result, playwright_result, http_error,
                   reports_db, store, fn_in, fn_out, runs>>

\* DatabaseHelper.prepare_record_for_database as main.py:425-435 calls it:
\* the row written for a response.
prepare_record_for_database(db_tracking_id, resp) ==
    [tracking_id |-> db_tracking_id,
     category |-> IF resp.issue_type = NULL THEN "Unknown"
                  ELSE resp.issue_type,
     description |-> resp.message,
     twitter_url |-> resp.social_post_url]

\* main.py:400-435: the row for the response; the city tracking number,
\* when there is one, replaces the tracking id.
DbRecord(resp) ==
    prepare_record_for_database(
        IF Truthy(resp.tracking_number) THEN resp.tracking_number
        ELSE resp.tracking_id,
        resp)

\* main.py:392-472: the row is inserted (an insert error is swallowed,
\* supabase_client.py:57-71), the response is kept in reports_db under the
\* generated tracking id, and the response is returned.
Store ==
    /\ pc = "storing"
    /\ \E inserted \in BOOLEAN :
         store' = IF inserted THEN Append(store, DbRecord(response))
                  ELSE store
    /\ reports_db' = {e \in reports_db : e.key # tracking_id}
                     \cup {[key |-> tracking_id, value |-> response]}
    /\ pc' = "returned"
    /\ UNCHANGED <<tracking_id, analysis_results, form_submission_result,
                   social_media_result, search, form_search_result,
                   playwright_result, response, http_error, calls, fn_in,
                   fn_out, runs>>

\* main.py:520-525, get_report_status: the report kept in reports_db under
\* report_id, or 404.
get_report_status(report_id) ==
    IF \E entry \in reports_db : entry.key = report_id
    THEN [status_code |-> 200,
          report |-> (CHOOSE entry \in reports_db :
                         entry.key = report_id).value]
    ELSE [status_code |-> 404, report |-> UNSET]

\* main.py:563-569, get_reports: a row read back from the store, with the
\* keys of the memory format added.
get_reports(db_record) ==
    [tracking_id |-> db_record.tracking_id,
     category |-> db_record.category,
     description |-> db_record.description,
     twitter_url |-> db_record.twitter_url,
     issue_type |-> db_record.category,
     message |-> db_record.description]

Next ==
    \/ Receive
    \/ Classify
    \/ Agent2Submit
    \/ Agent3Publish
    \/ SearchStart
    \/ Poll
    \/ SearchFinish
    \/ SubmitSfgov
    \/ Amplify
    \/ Store

Spec == Init /\ [][Next]_vars

(***************************************************************************)
(* The stage functions on their own: the input is drawn in the initial     *)
(* state and the function is applied once.                                 *)
(***************************************************************************)

\* The provider's category texts.
RawCategories ==
    {"Road Crack", "Sidewalk Crack", "Graffiti", "Overflowing Trash",
     "Faded Street Markings", "Broken Street Light", "Fallen Tree", "None",
     "none", "N/A", "No Issue", "road crack", "Crack", "Graffiti Tag",
     "Pothole", "Tree", ""}

\* The provider's confidences, in percent, some outside [0, 100].
RawConfidences == {-20, 0, 30, 59, 60, 61, 85, 100, 150}

\* Values of CONFIDENCE_THRESHOLD, in percent.
Thresholds == {-10, 0, 50, 60, 90, 100, 120}

ClassifyInputs ==
    [fn : {"analyze_image_with_groq"}, raw : RawCategories,
     conf : RawConfidences, threshold : Thresholds]

SubmitFormInputs ==
    [fn : {"submit_form"},
     category : {"Road Crack", "Graffiti", "Overflowing Trash"},
     run : Runs]

\* Largest number of hashtags in the style hints of the model.
MaxTags == 4

Addresses == [street : {12, 150}, rest : {0, 25, 300}]

\* The style hints: tags of 5 and of 120 characters; has_tags is false
\* when the hints hold no 'top_hashtags'.
ViralInsights ==
    [has_tags : {TRUE}, top_hashtags : SeqsUpTo({5, 120}, MaxTags),
     emoji_usage : {"high", "low", "moderate"},
     cta_style : {"urgent", "community", "direct"}]
    \cup [has_tags : {FALSE}, top_hashtags : {<<>>},
          emoji_usage : {"high", "low", "moderate"},
          cta_style : {"urgent", "community", "direct"}]

\* tracking numbers of 4 ("None"), 12 and 17 characters.
ComposeInputs ==
    [fn : {"_generate_optimized_post"},
     category : {"Road Crack", "Sidewalk Crack", "Pothole"},
     address : Addresses, tracking_number : {4, 12, 17},
     viral_insights : ViralInsights]

\* The addresses the publish calls pass on: resolved ones, the fallback
\* "Location: lat, lon" of form_submission_agent.py:150, the default
\* 'Address not available' of main.py:303, and None when the automation
\* output holds no address (playwright_integration.py:184-189).
HintAddresses ==
    {[none |-> FALSE, parts |-> p] :
        p \in {<<"123 Market St", "San Francisco", "CA 94103">>,
               <<"1 Broadway", "Oakland", "CA">>,
               <<"5 Main St", "Austin", "TX">>,
               <<"Location: 37.77", "-122.41">>,
               <<"Address not available">>}}
    \cup {[none |-> TRUE, parts |-> <<>>]}

\* The provider's answers.
ApiAnswers ==
    {[kind |-> "error", posts |-> Posts(0, 0, 0, <<>>, FALSE)]}
    \cup {[kind |-> "ok", posts |-> ps] :
            ps \in {Posts(0, 0, 0, <<>>, FALSE),
                    Posts(300, 45, 80, <<9, 6>>, FALSE),
                    Posts(300, 45, 80, <<9, 6>>, TRUE)}}

RandomDraws ==
    [avg_emoji : {15, 25}, cta_ratio : {65, 75}, reversed : BOOLEAN]

Corpora ==
    {[kind |-> "missing", features |-> _get_default_insights],
     [kind |-> "broken", features |-> _get_default_insights],
     [kind |-> "features",
      features |-> Insights(<<8, 8>>, "low", "urgent")]}

AnalyzeInputs ==
    [fn : {"analyze_viral_posts_in_area"}, address : HintAddresses,
     env : [api_key : BOOLEAN, api : ApiAnswers, rand : RandomDraws,
            extractor_available : BOOLEAN, corpus : Corpora]]

\* The outcomes of the one request a resolver sends to the geocoding
\* provider: an answer with or without a city, a status other than 200
\* ("http_error"), a timeout, a connection or service error ("error"),
\* and an exception of another class ("unexpected").
ResolverAnswers ==
    {[kind |-> "ok", city |-> c] : c \in {"San Francisco", "Oakland", NULL}}
    \cup {[kind |-> k, city |-> NULL] :
            k \in {"http_error", "timeout", "error", "unexpected"}}

\* form_submission_agent.py:166-226 with a second request after a failed
\* one.
Mut_reverse_geocode_call(geo) ==
    [result |-> _reverse_geocode(geo),
     provider_calls |-> IF geo.kind = "ok" THEN 1 ELSE 2,
     raised |-> FALSE]

\* form_submission_agent.py:166-226: one call of _reverse_geocode sends
\* one requests.get (line 179) and every exception is caught (219).
reverse_geocode_call(geo) ==
    [result |-> _reverse_geocode(geo), provider_calls |-> 1,
     raised |-> FALSE]

\* brightdata_search.py:28-57: one call of get_city_from_coordinates sends
\* one geolocator.reverse (33); GeocoderTimedOut and GeocoderServiceError
\* are caught (55), an exception of another class is not.  The city is
\* None on every failure.
get_city_from_coordinates(geo) ==
    [result |-> [success |-> geo.kind = "ok" /\ geo.city # NULL,
                 city |-> IF geo.kind = "ok" THEN geo.city ELSE NULL],
     provider_calls |-> 1,
     raised |-> geo.kind = "unexpected"]

GeocodeInputs ==
    [fn : {"_reverse_geocode", "get_city_from_coordinates"},
     geo : ResolverAnswers]

\* The cities _submit_to_city is called for, with and without SF_311_API_KEY
\* and with the answers of the 311 API.
SubmitToCityInputs ==
    [fn : {"_submit_to_city"},
     city : {"San Francisco", "Oakland", "Berkeley", "Austin", "Unknown"},
     sf_311_api_key : BOOLEAN, api : {"200", "error"}]

\* The lines of the outputs extract_tracking_number is applied to: every
\* label with runs of 5, 8, 11 and 16 digits.
ExtractLines ==
    {Line(lab, n) :
        lab \in {"json", "js", "service_request", "request", "tracking",
                 "case", "sr", "number", "bare"},
        n \in {5, 8, 11, 16}}

ExtractInputs ==
    [fn : {"extract_tracking_number"},
     output : SeqsUpTo(ExtractLines, MaxLines)]

\* Largest value of a result's 'rank' field in the model.
MaxRankField == 12

\* The results calculate_relevance is applied to: every combination of the
\* bonuses, with a 'rank' field of 1..MaxRankField.
RelevanceInputs ==
    [fn : {"calculate_relevance"},
     result : {Result("t", "u", g, k, h, cu, ct) :
                  g \in BOOLEAN, k \in BOOLEAN, h \in BOOLEAN,
                  cu \in BOOLEAN, ct \in BOOLEAN},
     rank : 1..MaxRankField]

PlainResult ==
    Result("Potholes blog", "https://example.com/potholes",
           FALSE, FALSE, FALSE, FALSE, FALSE)

GovResult ==
    Result("Public Works", "https://publicworks.gov/streets",
           TRUE, FALSE, FALSE, FALSE, FALSE)

GovFullResult ==
    Result("San Francisco 311 report form", "https://sanfrancisco.gov/311",
           TRUE, TRUE, TRUE, TRUE, TRUE)

\* The results of the answers the ranking is applied to: those of
\* SampleResults, a non-government page with the city in its URL and a
\* non-government page with every other bonus.
RankResults ==
    SampleResults
    \cup {Result("Street repairs", "https://example.com/san-francisco",
                 FALSE, FALSE, FALSE, TRUE, FALSE),
          Result("San Francisco 311 report form",
                 "https://sanfrancisco311.example.com/report",
                 FALSE, TRUE, TRUE, TRUE, TRUE)}

\* The answers the ranking is applied to: short lists of RankResults, and
\* lists of ten results, nine plain ones followed by a government page.
RankData ==
    {[shape |-> sh, results |-> rs] :
        sh \in {"list", "legacy"},
        rs \in SeqsUpTo(RankResults, MaxResults)
               \cup {[i \in 1..TopN |-> IF i < TopN THEN PlainResult ELSE last] :
                        last \in {GovResult, GovFullResult}}}

SearchInputs == [fn : {"search_reporting_form"}, data : RankData]

FnInit ==
    /\ pc = "idle"
    /\ tracking_id = NullId
    /\ analysis_results = UNSET
    /\ form_submission_result = UNSET
    /\ social_media_result = UNSET
    /\ search = UNSET
    /\ form_search_result = UNSET
    /\ playwright_result = UNSET
    /\ response = UNSET
    /\ http_error = 0
    /\ reports_db = {}
    /\ store = <<>>
    /\ calls = <<>>
    /\ fn_in \in ClassifyInputs \cup SubmitFormInputs \cup ComposeInputs
                \cup AnalyzeInputs \cup ExtractInputs \cup RelevanceInputs
                \cup SearchInputs \cup GeocodeInputs
                \cup SubmitToCityInputs
    /\ fn_out = UNSET
    /\ runs = <<>>

ApplyClassify ==
    /\ fn_in.fn = "analyze_image_with_groq"
    /\ fn_out = UNSET
    /\ fn_out' = analyze_image_with_groq(fn_in.raw, fn_in.conf,
                                         fn_in.threshold)
    /\ UNCHANGED <<pipeline_vars, fn_in>>

ApplySubmitForm ==
    /\ fn_in.fn = "submit_form"
    /\ fn_out = UNSET
    /\ fn_out' = submit_form(fn_in.category, fn_in.run)
    /\ UNCHANGED <<pipeline_vars, fn_in>>

\* The post is composed from the input, twice at most; on the second call
\* the text is cut to half the limit.
MutApplyCompose ==
    /\ fn_in.fn = "_generate_optimized_post"
    /\ LET post_text == _generate_optimized_post(
                fn_in.category, fn_in.address, fn_in.tracking_number,
                fn_in.viral_insights)
       IN  IF fn_out = UNSET
           THEN fn_out' = [texts |-> <<post_text>>]
           ELSE /\ Len(fn_out.texts) < 2
                /\ fn_out' = [texts |-> Append(fn_out.texts,
                                               Take(post_text, 140))]
    /\ UNCHANGED <<pipeline_vars, fn_in>>

\* social_media_agent.py:109-115: the post is composed from the input,
\* twice at most; fn_out keeps the texts of the calls.
ApplyCompose ==
    /\ fn_in.fn = "_generate_optimized_post"
    /\ LET post_text == _generate_optimized_post(
                fn_in.category, fn_in.address, fn_in.tracking_number,
                fn_in.viral_insights)
       IN  IF fn_out = UNSET
           THEN fn_out' = [texts |-> <<post_text>>]
           ELSE /\ Len(fn_out.texts) < 2
                /\ fn_out' = [texts |-> Append(fn_out.texts, post_text)]
    /\ UNCHANGED <<pipeline_vars, fn_in>>

\* social_media_agent.py:100-105: the style hints are gathered.
ApplyAnalyze ==
    /\ fn_in.fn = "analyze_viral_posts_in_area"
    /\ fn_out = UNSET
    /\ fn_out' = analyze_viral_posts_in_area(fn_in.address, fn_in.env)
    /\ UNCHANGED <<pipeline_vars, fn_in>>

\* playwright_integration.py:182: the tracking number is extracted from
\* the output.
ApplyExtract ==
    /\ fn_in.fn = "extract_tracking_number"
    /\ fn_out = UNSET
    /\ fn_out' = [tracking_number |-> extract_tracking_number(fn_in.output)]
    /\ UNCHANGED <<pipeline_vars, fn_in>>

\* brightdata_search.py:311/321: a result that carries its own 'rank' field
\* is scored.
ApplyRelevance ==
    /\ fn_in.fn = "calculate_relevance"
    /\ fn_out = UNSET
    /\ fn_out' = [score |-> calculate_relevance(fn_in.result, fn_in.rank)]
    /\ UNCHANGED <<pipeline_vars, fn_in>>

\* brightdata_search.py:187-216: the result is built from the polled data.
ApplySearchResult ==
    /\ fn_in.fn = "search_reporting_form"
    /\ fn_out = UNSET
    /\ fn_out' = SearchResult(fn_in.data)
    /\ UNCHANGED <<pipeline_vars, fn_in>>

\* form_submission_agent.py:96 and brightdata_search.py:78: a resolver is
\* called with the coordinates.
ApplyGeocode ==
    /\ fn_in.fn \in {"_reverse_geocode", "get_city_from_coordinates"}
    /\ fn_out = UNSET
    /\ fn_out' = IF fn_in.fn = "_reverse_geocode"
                 THEN reverse_geocode_call(fn_in.geo)
                 ELSE get_city_from_coordinates(fn_in.geo)
    /\ UNCHANGED <<pipeline_vars, fn_in>>

\* form_submission_agent.py:114-123: the report is submitted to the city.
ApplySubmitToCity ==
    /\ fn_in.fn = "_submit_to_city"
    /\ fn_out = UNSET
    /\ fn_out' = _submit_to_city(fn_in.city, fn_in.sf_311_api_key, fn_in.api)
    /\ UNCHANGED <<pipeline_vars, fn_in>>

FnNext ==
    \/ ApplyClassify
    \/ ApplySubmitForm
    \/ ApplyCompose
    \/ ApplyAnalyze
    \/ ApplyExtract
    \/ ApplyRelevance
    \/ ApplySearchResult
    \/ ApplyGeocode
    \/ ApplySubmitToCity

FnSpec == FnInit /\ [][FnNext]_vars

(***************************************************************************)
(* Two requests in flight on the one event loop.  A run is the handler's   *)
(* coroutine with its locals; reports_db and the store are shared.  A step *)
(* of a run is the stretch of the handler between two awaits.              *)
(***************************************************************************)

RunIds == {1, 2}

\* What the outside gives one run: the provider's category, the search
\* provider's data, the outcome of the automation script and whether the
\* post is published.
RunInput(raw, data, script, published) ==
    [raw |-> raw, data |-> data, script |-> script, published |-> published]

FoundData == [shape |-> "list", results |-> <<GovResult>>]

ScriptExit(returncode, stdout) ==
    [kind |-> "exit", returncode |-> returncode, stdout |-> stdout]

ScriptTimeout == [kind |-> "timeout", returncode |-> 0, stdout |-> <<>>]

\* The runs of the model: a rejected image, a search without results, a
\* submission that returns a tracking number (published or not), one that
\* returns none, a script that fails, one that times out and one that is
\* not there.
RunInputs ==
    {RunInput("None", FoundData, ScriptExit(0, <<>>), FALSE),
     RunInput("Road Crack", NoData, ScriptExit(0, <<>>), FALSE),
     RunInput("Road Crack", FoundData,
              ScriptExit(0, <<Line("json", 12)>>), TRUE),
     RunInput("Graffiti", FoundData,
              ScriptExit(0, <<Line("json", 12)>>), FALSE),
     RunInput("Road Crack", FoundData, ScriptExit(0, <<>>), TRUE),
     RunInput("Graffiti", FoundData, ScriptExit(1, <<>>), TRUE),
     RunInput("Road Crack", FoundData, ScriptTimeout, TRUE),
     RunInput("Graffiti", FoundData,
              [kind |-> "script_missing", returncode |-> 0, stdout |-> <<>>],
              TRUE)}

\* main.py:147, str(uuid.uuid4()): an id no other run has.
NewTrackingId(r) == Id("uuid", IF r = 1 THEN "a" ELSE "b", 36)

\* The confidence the provider gives in the runs of the model.
RunConfidence == 92

ConcInit ==
    /\ pc = "idle"
    /\ tracking_id = NullId
    /\ analysis_results = UNSET
    /\ form_submission_result = UNSET
    /\ social_media_result = UNSET
    /\ search = UNSET
    /\ form_search_result = UNSET
    /\ playwright_result = UNSET
    /\ response = UNSET
    /\ http_error = 0
    /\ reports_db = {}
    /\ store = <<>>
    /\ calls = <<>>
    /\ fn_in = UNSET
    /\ fn_out = UNSET
    /\ runs \in [RunIds ->
                  [pc : {"idle"}, tracking_id : {NullId}, input : RunInputs,
                   analysis_results : {UNSET}, reporting_url : {NULL},
                   playwright_result : {UNSET}, response : {UNSET},
                   http_error : {0}, cancel_requested : {FALSE},
                   process : {"none"}, inserted : {FALSE}]]

conc_unchanged ==
    <<pc, tracking_id, analysis_results, form_submission_result,
      social_media_result, search, form_search_result, playwright_result,
      response, http_error, calls, fn_in, fn_out>>

\* playwright_integration.py:159-165: subprocess.run blocks the thread of
\* the event loop until the script has exited or timed out; no other
\* coroutine runs meanwhile.
LoopBlocked == \E q \in RunIds : runs[q].pc = "subprocess"

\* The same for the runs other than r.
BlockedByOther(r) == \E q \in RunIds \ {r} : runs[q].pc = "subprocess"

\* The handler with every await taken as a point where a cancellation is
\* delivered, the wait for the subprocess included.
MutCanObserveCancel(p) ==
    p \in {"classifying", "agent2", "agent3", "search", "subprocess",
           "amplifying"}

\* A cancellation is delivered to a coroutine only where it is suspended in
\* an await; the handler awaits at main.py:160 (classification), 192 and
\* 215 (the first submission and publish calls), 258 (discovery, which
\* sleeps at brightdata_search.py:164) and 323 (the publish call).  The
\* subprocess is waited for inside subprocess.run
\* (playwright_integration.py:159), which is no await.
CanObserveCancel(p) ==
    p \in {"classifying", "agent2", "agent3", "search", "amplifying"}

\* main.py:455 with the report kept under one key for every run.
Mut_reports_db_key(run) == NullId

\* main.py:455, reports_db[tracking_id]: the key of a run's report.
reports_db_key(run) == run.tracking_id

\* The client went away or the server shuts down: cancellation of the
\* run's task is requested.
RequestCancel(r) ==
    /\ runs[r].pc \notin {"idle", "returned", "raised", "cancelled"}
    /\ ~runs[r].cancel_requested
    /\ runs' = [runs EXCEPT ![r].cancel_requested = TRUE]
    /\ UNCHANGED <<conc_unchanged, reports_db, store>>

\* CancelledError is raised in the await the run is suspended in; it is no
\* Exception, so main.py:375 does not catch it and the handler is left.
ObserveCancel(r) ==
    /\ ~BlockedByOther(r)
    /\ runs[r].cancel_requested
    /\ CanObserveCancel(runs[r].pc)
    /\ runs' = [runs EXCEPT ![r].pc = "cancelled"]
    /\ UNCHANGED <<conc_unchanged, reports_db, store>>

\* main.py:144-160: the request arrives, the tracking id is generated and
\* the classification is awaited.
ConcReceive(r) ==
    /\ ~LoopBlocked
    /\ runs[r].pc = "idle"
    /\ runs' = [runs EXCEPT ![r].pc = "classifying",
                            ![r].tracking_id = NewTrackingId(r)]
    /\ UNCHANGED <<conc_unchanged, reports_db, store>>

\* main.py:160-192: the classification returned.
ConcClassify(r) ==
    /\ ~LoopBlocked
    /\ runs[r].pc = "classifying"
    /\ LET a == analyze_image_with_groq(runs[r].input.raw, RunConfidence,
                                        DefaultThreshold)
       IN  runs' = [runs EXCEPT
                ![r].analysis_results = a,
                ![r].response = IF IsRejected(a)
                                THEN RejectedResponse(runs[r].tracking_id)
                                ELSE UNSET,
                ![r].pc = IF IsRejected(a) THEN "storing" ELSE "agent2"]
    /\ UNCHANGED <<conc_unchanged, reports_db, store>>

\* main.py:192-258: the first submission call returned, then the first
\* publish call, and discovery is awaited.
ConcAgents(r) ==
    /\ ~LoopBlocked
    /\ runs[r].pc \in {"agent2", "agent3"}
    /\ runs' = [runs EXCEPT ![r].pc = IF runs[r].pc = "agent2"
                                      THEN "agent3" ELSE "search"]
    /\ UNCHANGED <<conc_unchanged, reports_db, store>>

\* Whether submit_form gets as far as subprocess.run
\* (playwright_integration.py:134-165).
Launches(category, script) ==
    category \in category_to_script
    /\ script.kind \in {"exit", "timeout"}

\* main.py:258-285 and playwright_integration.py:134-165: discovery
\* returned; without a form URL the handler raises, else submit_to_sfgov
\* is called, which runs as far as subprocess.run without an await.
ConcSearchReturned(r) ==
    /\ ~LoopBlocked
    /\ runs[r].pc = "search"
    /\ LET found == SearchResult(runs[r].input.data)
           category == runs[r].analysis_results.category
           script == runs[r].input.script
           pr == submit_form(category, script)
       IN  IF ~found.success \/ UrlMissing(found.top_link.url)
           THEN runs' = [runs EXCEPT ![r].http_error = 500,
                                     ![r].pc = "raised"]
           ELSE IF Launches(category, script)
           THEN runs' = [runs EXCEPT
                    ![r].reporting_url = found.top_link.url,
                    ![r].process = "running",
                    ![r].pc = "subprocess"]
           ELSE runs' = [runs EXCEPT
                    ![r].reporting_url = found.top_link.url,
                    ![r].playwright_result = pr,
                    ![r].response = SubmissionResponse(
                        runs[r].tracking_id, runs[r].analysis_results,
                        found.top_link.url, pr, NULL),
                    ![r].pc = "storing"]
    /\ UNCHANGED <<conc_unchanged, reports_db, store>>

\* playwright_integration.py:159-201 and main.py:295-322: the script
\* exited, or subprocess.run killed it at its timeout; with a tracking
\* number the publish call is awaited.
ConcSubprocessEnded(r) ==
    /\ runs[r].pc = "subprocess"
    /\ LET script == runs[r].input.script
           pr == submit_form(runs[r].analysis_results.category, script)
           again == pr.success /\ Truthy(pr.tracking_number)
       IN  runs' = [runs EXCEPT
                ![r].process = IF script.kind = "timeout"
                               THEN "killed_at_timeout" ELSE "exited",
                ![r].playwright_result = pr,
                ![r].response = IF again THEN UNSET
                                ELSE SubmissionResponse(
                                        runs[r].tracking_id,
                                        runs[r].analysis_results,
                                        runs[r].reporting_url, pr, NULL),
                ![r].pc = IF again THEN "amplifying" ELSE "storing"]
    /\ UNCHANGED <<conc_unchanged, reports_db, store>>

\* main.py:322-367: the publish call returned.
ConcAmplify(r) ==
    /\ ~LoopBlocked
    /\ runs[r].pc = "amplifying"
    /\ LET post == publish_civic_issue_to_social_media(
                        runs[r].input.published)
       IN  runs' = [runs EXCEPT
                ![r].response = SubmissionResponse(
                    runs[r].tracking_id, runs[r].analysis_results,
                    runs[r].reporting_url, runs[r].playwright_result,
                    IF post.success THEN post.post_url ELSE NULL),
                ![r].pc = "storing"]
    /\ UNCHANGED <<conc_unchanged, reports_db, store>>

\* main.py:392-472: the row is inserted (an insert error is swallowed), the
\* response is kept in reports_db and returned.
ConcStore(r) ==
    /\ ~LoopBlocked
    /\ runs[r].pc = "storing"
    /\ \E inserted \in BOOLEAN :
         /\ store' = IF inserted
                     THEN Append(store, DbRecord(runs[r].response))
                     ELSE store
         /\ runs' = [runs EXCEPT ![r].inserted = inserted,
                                 ![r].pc = "returned"]
    /\ reports_db' = {e \in reports_db : e.key # reports_db_key(runs[r])}
                     \cup {[key |-> reports_db_key(runs[r]),
                            value |-> runs[r].response]}
    /\ UNCHANGED conc_unchanged

ConcNext ==
    \E r \in RunIds :
        \/ RequestCancel(r)
        \/ ObserveCancel(r)
        \/ ConcReceive(r)
        \/ ConcClassify(r)
        \/ ConcAgents(r)
        \/ ConcSearchReturned(r)
        \/ ConcSubprocessEnded(r)
        \/ ConcAmplify(r)
        \/ ConcStore(r)

ConcSpec == ConcInit /\ [][ConcNext]_vars

(***************************************************************************)
(* Properties                                                              *)
(***************************************************************************)

Max(S) == CHOOSE x \in S : \A y \in S : y <= x

\* The positions of the calls of a stage in the run's history.
CallsOf(stage) == {i \in DOMAIN calls : calls[i].stage = stage}

\* The run is over: the response was returned, or an HTTPException left the
\* handler.
Terminal == pc \in {"returned", "raised"}

\* C1: when the classification category is "None" the run ends with status
\* "rejected" and it calls no discovery, submission or amplification stage.
C1_RejectedRunCallsNoStage ==
    (analysis_results # UNSET /\ analysis_results.category = "None")
        => /\ pc \in {"storing", "returned"}
           /\ response # UNSET
           /\ response.status = "rejected"
           /\ http_error = 0
           /\ \A i \in DOMAIN calls : calls[i].stage = "classification"

\* C1 witness: a run whose low-confidence category was forced to "None"
\* has returned.
C1_Witness ==
    /\ pc = "returned"
    /\ analysis_results # UNSET
    /\ analysis_results.category = "None"
    /\ analysis_results.Text_Description = "low_confidence"
    /\ response.status = "rejected"

\* C2: the classification returned by analyze_image_with_groq has category
\* "None" or a confidence of at least the threshold; a category that
\* normalises to a real one with a clamped confidence below the threshold
\* comes out as "None".
C2_CategoryNoneOrConfident ==
    (fn_in # UNSET /\ fn_in.fn = "analyze_image_with_groq" /\ fn_out # UNSET)
        => /\ fn_out.category = "None" \/ fn_out.confidence >= fn_in.threshold
           /\ (ClampConfidence(fn_in.conf) < fn_in.threshold)
                 => fn_out.category = "None"

\* C2 witness: the provider asserted "Graffiti" with confidence 0.85 under a
\* threshold of 0.9 and the classification came out as "None".
C2_Witness ==
    /\ fn_in # UNSET
    /\ fn_in.fn = "analyze_image_with_groq"
    /\ fn_in.raw = "Graffiti"
    /\ fn_in.conf = 85
    /\ fn_in.threshold = 90
    /\ fn_out # UNSET
    /\ fn_out.category = "None"

\* C3 (as claimed): every amplification call follows a submission of the
\* run, and the latest submission before it returned success.
C3_AmplifyOnlyAfterSuccessfulSubmission ==
    \A i \in CallsOf("amplification") :
        LET before == {j \in CallsOf("submission") : j < i}
        IN  before # {} /\ calls[Max(before)].result = "success"

\* C4 (as claimed): the stages are called strictly forward: a submission
\* only after a discovery that returned a form, an amplification only after
\* a completed discovery and a completed submission.
C4_StagesStrictlyForward ==
    /\ \A i \in CallsOf("submission") :
          \E j \in CallsOf("discovery") : j < i /\ calls[j].result = "success"
    /\ \A i \in CallsOf("amplification") :
          /\ \E j \in CallsOf("discovery") :
                j < i /\ calls[j].result = "success"
          /\ \E j \in CallsOf("submission") : j < i
    /\ \A i \in CallsOf("discovery") :
          \E j \in CallsOf("classification") : j < i

\* C5 (as claimed): a submission result of either submission stage has a
\* tracking number only if its success field is true.
C5_TrackingNumberOnlyOnSuccess ==
    /\ form_submission_result # UNSET
          => (form_submission_result.tracking_number # NullId
                 => form_submission_result.success)
    /\ playwright_result # UNSET
          => (playwright_result.tracking_number # NullId
                 => playwright_result.success)

\* C6 (as claimed): no run ends in an HTTP-level error; a run that is over
\* has returned a response with a status, also when discovery found no
\* form.
C6_AlwaysStructuredResult ==
    /\ http_error = 0
    /\ Terminal => (response # UNSET /\ response.status # NULL)

\* C7 (as claimed): when polling was exhausted without data the run calls
\* neither a submission nor an amplification stage, at any point, and it
\* ends with a response, not an HTTP error.
C7_ExhaustedPollingSkipsStages ==
    (form_search_result # UNSET
     /\ form_search_result.error = "results not ready")
        => /\ CallsOf("submission") = {}
           /\ CallsOf("amplification") = {}
           /\ http_error = 0

\* C8 (as claimed): when the automation subprocess exited non-zero the
\* response has status "submission_failed" and no tracking number, and the
\* run called no amplification stage.
C8_NonZeroExitIsSubmissionFailed ==
    (playwright_result # UNSET /\ playwright_result.error = "script_failed"
     /\ response # UNSET)
        => /\ response.status = "submission_failed"
           /\ response.tracking_number = NullId
           /\ CallsOf("amplification") = {}

\* C9: when the subprocess was launched and exited with code 0, submit_form
\* returns success; when moreover no pattern matches the output, the
\* tracking number is null.
C9_SuccessIndependentOfExtraction ==
    (fn_in # UNSET /\ fn_in.fn = "submit_form" /\ fn_out # UNSET
     /\ fn_in.category \in category_to_script
     /\ fn_in.run.kind = "exit" /\ fn_in.run.returncode = 0)
        => /\ fn_out.success
           /\ (\A p \in 1..NPatterns : SearchToken(p, fn_in.run.stdout) = 0)
                 => fn_out.tracking_number = NullId

\* C9 witness: exit code 0 with an output of two lines no pattern matches;
\* the result is a success without a tracking number.
C9_Witness ==
    /\ fn_in # UNSET
    /\ fn_in.fn = "submit_form"
    /\ fn_in.category = "Road Crack"
    /\ fn_in.run.kind = "exit"
    /\ fn_in.run.returncode = 0
    /\ fn_in.run.stdout = <<Line("bare", 0), Line("bare", 0)>>
    /\ fn_out # UNSET
    /\ fn_out.success
    /\ fn_out.tracking_number = NullId

\* C10 (as claimed): a run whose form submission succeeded without a
\* tracking number makes no amplification call.
C10_NoTrackingNumberNoAmplification ==
    (playwright_result # UNSET /\ playwright_result.success
     /\ playwright_result.tracking_number = NullId)
        => CallsOf("amplification") = {}

\* The submissions of the run that reached the city system: the 311 API
\* accepted the request of Agent #2 (form_submission_agent.py:346-356), and
\* the form automation ran to a successful exit
\* (playwright_integration.py:168-186).
PerformedSubmissions ==
    (IF form_submission_result # UNSET
        /\ form_submission_result.submission_method = "sf311_api"
     THEN 1 ELSE 0)
    + (IF playwright_result # UNSET /\ playwright_result.success
       THEN 1 ELSE 0)

\* C11 (as claimed): a run performs at most one report submission to the
\* city system.
C11_AtMostOneSubmission == PerformedSubmissions <= 1

\* C12 (as claimed): a run calls the amplification stage at most once, so
\* the social post is composed and published at most once.
C12_AtMostOneAmplification == Cardinality(CallsOf("amplification")) <= 1

\* C13 (as claimed): the tracking id of the response of a run is the
\* identifier generated at the start of the run.
C13_TrackingIdImmutable ==
    response # UNSET => response.tracking_id = tracking_id

\* C14: a stage call that raised an exception is the last stage call of the
\* run, and the run goes on to return a response with status "error" whose
\* message carries the exception's description; the handler raises no HTTP
\* error for it.
C14_StageExceptionEndsInError ==
    \A i \in DOMAIN calls :
        calls[i].result = "raised"
            => /\ i = Len(calls)
               /\ pc \in {"storing", "returned"}
               /\ http_error = 0
               /\ response # UNSET
               /\ response.status = "error"
               /\ response.message = <<"Pipeline error", calls[i].error>>
               /\ response.tracking_number = NullId

\* C14 witness: the form automation could not be set up after
\* classification, city submission, publishing and discovery had been
\* called; the run returned the error response.
C14_Witness ==
    /\ pc = "returned"
    /\ Len(calls) = 5
    /\ calls[5].result = "raised"
    /\ calls[5].fn = "submit_to_sfgov"
    /\ response.status = "error"
    /\ response.message = <<"Pipeline error", IntegrationError>>

\* C15: a publish call that returned a failure (every exception of the
\* amplification stage is returned as one) does not change the outcome of
\* the run: after the first publish call the run goes on to discovery, and
\* after the publish call that follows a form submission with a tracking
\* number the response has status "submitted" and holds that tracking
\* number.
C15_PublishFailureIsNonFatal ==
    (calls # <<>> /\ calls[Len(calls)].stage = "amplification"
     /\ calls[Len(calls)].result = "failure")
        => /\ http_error = 0
           /\ \/ pc = "search" /\ playwright_result = UNSET
              \/ /\ pc \in {"storing", "returned"}
                 /\ response # UNSET
                 /\ response.status = "submitted"
                 /\ Truthy(response.tracking_number)
                 /\ response.tracking_number
                        = playwright_result.tracking_number
                 /\ response.social_post_url = NULL

\* C15 witness: the form submission extracted a tracking number, the publish
\* call after it failed, and the run returned status "submitted".
C15_Witness ==
    /\ pc = "returned"
    /\ playwright_result # UNSET
    /\ Truthy(playwright_result.tracking_number)
    /\ calls[Len(calls)].stage = "amplification"
    /\ calls[Len(calls)].result = "failure"
    /\ response.status = "submitted"

\* C16: for every category, address, tracking number and style hints the
\* text _generate_optimized_post returns is at most 280 characters long.
C16_PostWithinLimit ==
    (fn_in # UNSET /\ fn_in.fn = "_generate_optimized_post"
     /\ fn_out # UNSET)
        => \A i \in DOMAIN fn_out.texts :
              TextLen(fn_out.texts[i]) <= TwitterLimit

\* C16 witness: three hashtags of 120 characters keep the text over the
\* limit after the call to action was dropped and the address shortened;
\* the text returned is exactly 280 characters long.
C16_Witness ==
    /\ fn_in # UNSET
    /\ fn_in.fn = "_generate_optimized_post"
    /\ fn_in.viral_insights.top_hashtags = <<120, 120, 120>>
    /\ fn_in.address = [street |-> 12, rest |-> 25]
    /\ fn_out # UNSET
    /\ TextLen(fn_out.texts[1]) = TwitterLimit

C19_HintsNeverFail ==
    (fn_in # UNSET /\ fn_in.fn = "analyze_viral_posts_in_area"
     /\ fn_out # UNSET)
        => /\ ~fn_out.raised
           /\ ((~fn_in.env.api_key \/ fn_in.env.api.kind = "error")
               /\ ~(fn_in.env.extractor_available
                    /\ fn_in.env.corpus.kind = "features"))
                 => fn_out.insights
                        = _get_mock_insights(
                              _extract_city_from_address(fn_in.address))

\* C18 (as claimed): a geocoding failure or an answer without a city does
\* not fail the run: the city submission goes on with the default city
\* "San Francisco" instead of failing, and discovery does not end for want
\* of a city.
C18_GeocodingFailureUsesDefaults ==
    /\ form_submission_result # UNSET
          => form_submission_result.city # "Unknown"
    /\ form_search_result # UNSET
          => form_search_result.error # "no_city"

\* The store was asked to keep the report of the run: the row was inserted,
\* or the insert was tried and failed before the response was filed in
\* reports_db (main.py:441-455).
PersistAttempts ==
    IF reports_db # {} THEN 1 ELSE Len(store)

\* C20 (as claimed): a run that is over has persisted its report exactly
\* once, whatever its outcome, and nothing is persisted while a stage of
\* the run is still to be called.
C20_PersistedOnceAtEnd ==
    /\ Len(store) <= 1
    /\ store # <<>> => pc = "returned"
    /\ Terminal => PersistAttempts = 1

\* The fields of a report a row read back is compared on.
ReportFields ==
    {"tracking_id", "status", "issue_type", "confidence", "tracking_number",
     "social_post_url"}

\* C21 (as claimed): the row a run wrote to the store, read back, holds the
\* values of the response the run returned in every field of the report.
C21_StoreRoundTrip ==
    (pc = "returned" /\ store # <<>>)
        => LET row == get_reports(store[Len(store)])
           IN  \A f \in ReportFields :
                  f \in DOMAIN row /\ row[f] = response[f]

\* C22: one call of submit_form launches the automation subprocess at most
\* once; after a non-zero exit or a timeout it was launched exactly once
\* and the result is a failure.
C22_NoRetryOfAutomation ==
    (fn_in # UNSET /\ fn_in.fn = "submit_form" /\ fn_out # UNSET)
        => /\ fn_out.launched <= 1
           /\ (fn_in.category \in category_to_script
               /\ (fn_in.run.kind = "timeout"
                   \/ (fn_in.run.kind = "exit" /\ fn_in.run.returncode # 0)))
                 => (fn_out.launched = 1 /\ ~fn_out.success
                     /\ fn_out.tracking_number = NullId)

\* C22 witness: the subprocess exited with code 1 after printing a line
\* that holds a tracking number; the result is a failure after one launch.
C22_Witness ==
    /\ fn_in # UNSET
    /\ fn_in.fn = "submit_form"
    /\ fn_in.category = "Graffiti"
    /\ fn_in.run.kind = "exit"
    /\ fn_in.run.returncode = 1
    /\ fn_in.run.stdout = <<Line("json", 12)>>
    /\ fn_out # UNSET
    /\ fn_out.launched = 1
    /\ ~fn_out.success

\* C29: for a category outside category_to_script submit_form launches no
\* subprocess and returns a failure, whatever the script would have done.
C29_UnknownCategoryIsFatal ==
    (fn_in # UNSET /\ fn_in.fn = "submit_form" /\ fn_out # UNSET
     /\ fn_in.category
            \notin {"Road Crack", "Sidewalk Crack", "Graffiti", "Fallen Tree"})
        => /\ fn_out.launched = 0
           /\ ~fn_out.success
           /\ fn_out.tracking_number = NullId
           /\ fn_out.error = "unknown_category"

\* C29 witness: "Overflowing Trash" has no script; the call failed without
\* a launch although the script run would have exited 0 with a tracking
\* number.
C29_Witness ==
    /\ fn_in # UNSET
    /\ fn_in.fn = "submit_form"
    /\ fn_in.category = "Overflowing Trash"
    /\ fn_in.run.kind = "exit"
    /\ fn_in.run.returncode = 0
    /\ fn_in.run.stdout = <<Line("json", 12)>>
    /\ fn_out # UNSET
    /\ fn_out.launched = 0
    /\ ~fn_out.success

\* C30: extract_tracking_number returns the token of the first pattern, in
\* the patterns' order, whose match in the output has at least 8 digits;
\* a result that is not null has at least 8 digits, and the result is null
\* exactly when no pattern's match has that many.
C30_FirstPatternWithEightDigits ==
    (fn_in # UNSET /\ fn_in.fn = "extract_tracking_number" /\ fn_out # UNSET)
        => LET out == fn_in.output
               tn == fn_out.tracking_number
               long == {p \in 1..10 : SearchToken(p, out) >= 8}
           IN  /\ (tn # NullId)
                    => /\ tn.kind = "digits"
                       /\ tn.len >= 8
                       /\ \E p \in long :
                            /\ tn.len = SearchToken(p, out)
                            /\ \A q \in 1..(p - 1) : q \notin long
               /\ (tn = NullId) <=> (long = {})

\* C30 witness: the output is "Request: <5 digits>" then "Tracking: <11
\* digits>"; the fourth pattern matches with 5 digits and is passed over,
\* the fifth gives the 11 digits returned.
C30_Witness ==
    /\ fn_in # UNSET
    /\ fn_in.fn = "extract_tracking_number"
    /\ fn_in.output = <<Line("request", 5), Line("tracking", 11)>>
    /\ fn_out # UNSET
    /\ fn_out.tracking_number = Id("digits", "", 11)

\* The bonuses of a result, doubled.
Bonuses(result) ==
    (IF result.gov THEN 10 ELSE 0) + (IF result.kw THEN 4 ELSE 0)
    + (IF result.h311 THEN 3 ELSE 0) + (IF result.cityUrl THEN 2 ELSE 0)
    + (IF result.cityTitle THEN 1 ELSE 0)

\* C23 (as claimed): the score of a result at rank r is max(1, 11 - r)
\* plus its bonuses (both sides doubled).
C23_ScoreIsClampedRankPlusBonuses ==
    (fn_in # UNSET /\ fn_in.fn = "calculate_relevance" /\ fn_out # UNSET)
        => fn_out.score
              = 2 * Max({1, 11 - fn_in.rank}) + Bonuses(fn_in.result)

\* The links of a sorted list that hold the score s, in the list's order.
WithScore(links, s) == SelectSeq(links, LAMBDA l : l.relevance_score = s)

C25_TopLinkIsBestScored ==
    (fn_in # UNSET /\ fn_in.fn = "search_reporting_form" /\ fn_out # UNSET
     /\ fn_out.success /\ fn_out.all_links # <<>>)
        => fn_out.top_link = fn_out.all_links[1]

\* C26: while search_reporting_form polls, it has made at most 30
\* attempts and slept 3 seconds before each; it polls again only while no
\* answer held results and fewer than 30 attempts were made; and when the
\* 30 attempts are used up without results the call returns a failure.
C26_BoundedPolling ==
    [][(pc = "polling")
         => /\ search.attempt <= 30
            /\ search.slept = 3 * search.attempt
            /\ search.ready <=> HasData(search.data)
            /\ (pc' = "polling")
                 => /\ ~search.ready
                    /\ search.attempt < 30
                    /\ search'.attempt = search.attempt + 1
                    /\ search'.slept = search.slept + 3
            /\ (pc' # "polling" /\ ~search.ready /\ search.attempt = 30)
                 => /\ ~form_search_result'.success
                    /\ form_search_result'.error = "results not ready"]_vars

\* C26 witness: thirty attempts were made, 90 seconds slept, and no answer
\* held results.
C26_Witness ==
    /\ pc = "polling"
    /\ search.attempt = 30
    /\ search.slept = 90
    /\ ~search.ready
    /\ search.last_status = 202

\* C27 (as claimed): an answer with a 4xx status is not retried; after it
\* no further poll request is sent.
C27_NoRetryAfter4xx ==
    [][(pc = "polling" /\ search.attempt >= 1 /\ search.last_status = 404)
         => ~(pc' = "polling" /\ search'.attempt = search.attempt + 1)]_vars

\* C28 (as claimed): search_reporting_form never returns a success result
\* that has no form URL.
C28_SuccessHasFormUrl ==
    (form_search_result # UNSET /\ form_search_result.success)
        => ~UrlMissing(form_search_result.top_link.url)

\* The eight categories of the closed set.
ClosedCategories ==
    {"Road Crack", "Sidewalk Crack", "Graffiti", "Overflowing Trash",
     "Faded Street Markings", "Broken Street Light", "Fallen Tree", "None"}

\* One text contains the other, letter case ignored.
Contains(a, b) ==
    \/ IsSubstr(Lower(Chars(a)), Lower(Chars(b)))
    \/ IsSubstr(Lower(Chars(b)), Lower(Chars(a)))

\* C31: the category analyze_image_with_groq outputs is one of the eight
\* of the closed set; where the confidence check leaves the category
\* alone, an exact member is kept, a string that is no exact member
\* becomes a member that contains it or is contained in it, and "None"
\* when no member is.
C31_CategoryInClosedSet ==
    (fn_in # UNSET /\ fn_in.fn = "analyze_image_with_groq" /\ fn_out # UNSET)
        => /\ fn_out.category \in ClosedCategories
           /\ (fn_out.Text_Description = "provider")
                => IF fn_in.raw \in ClosedCategories
                   THEN fn_out.category = fn_in.raw
                   ELSE IF \E v \in ClosedCategories : Contains(v, fn_in.raw)
                   THEN Contains(fn_out.category, fn_in.raw)
                   ELSE fn_out.category = "None"

\* C31 witness: the provider said "Graffiti Tag" with confidence 0.85; the
\* category output is "Graffiti".
C31_Witness ==
    /\ fn_in # UNSET
    /\ fn_in.fn = "analyze_image_with_groq"
    /\ fn_in.raw = "Graffiti Tag"
    /\ fn_in.conf = 85
    /\ fn_in.threshold = 60
    /\ fn_out # UNSET
    /\ fn_out.category = "Graffiti"

\* C32: on a provider timeout, error or status other than 200 a resolver
\* has sent exactly one request, does not raise, and returns a failure
\* value; no call of a resolver sends more than one request.
C32_GeocodingFailsWithoutRaisingOrRetry ==
    (fn_in # UNSET /\ fn_out # UNSET
     /\ fn_in.fn \in {"_reverse_geocode", "get_city_from_coordinates"})
        => /\ fn_out.provider_calls = 1
           /\ (fn_in.geo.kind \in {"timeout", "error", "http_error"})
                => /\ ~fn_out.raised
                   /\ ~fn_out.result.success
                   /\ fn_out.result.city \in {"Unknown", NULL}

\* C32 witness: the provider timed out on _reverse_geocode's request; the
\* call returned a failure after one request.
C32_Witness ==
    /\ fn_in # UNSET
    /\ fn_in.fn = "_reverse_geocode"
    /\ fn_in.geo.kind = "timeout"
    /\ fn_out # UNSET
    /\ fn_out.provider_calls = 1
    /\ ~fn_out.raised
    /\ ~fn_out.result.success

\* The lines of a text that are not empty, each named by the parts of its
\* piece, in order.
LinesOf(text) ==
    LET kept == SelectSeq(text, LAMBDA piece :
                    piece.part # <<"newline">> /\ piece.n > 0)
    IN  [i \in DOMAIN kept |-> kept[i].part]

\* The length of the five lines of the input joined, with the call to
\* action (cta = 1) or without it (cta = 0), the address in full.
FullLen(in, cta) ==
    Header(in.category, in.viral_insights.emoji_usage).n
    + 1 + 2 + in.address.street + in.address.rest
    + 1 + TrackingLine(in.tracking_number).n
    + cta * (1 + Cta(in.viral_insights.cta_style).n)
    + 1 + Hashtags(in.viral_insights).n

\* C33: a post that fits in 280 units keeps the five lines header,
\* location, tracking number, call to action, hashtags in that order, the
\* hashtags the first three tags; a longer one loses the call to action
\* first, keeps the full address if that is enough, has the address cut to
\* the street only otherwise, and is cut at 280 units only after that.
C33_CtaDroppedBeforeAddressShortened ==
    (fn_in # UNSET /\ fn_in.fn = "_generate_optimized_post"
     /\ fn_out # UNSET)
        => LET text == fn_out.texts[1]
               lines == LinesOf(text)
               hdr == <<"header", fn_in.viral_insights.emoji_usage,
                        fn_in.category>>
               cta == <<"cta", fn_in.viral_insights.cta_style>>
               tags == fn_in.viral_insights.top_hashtags
               short_len == FullLen(fn_in, 0) - fn_in.address.rest
               tagline == IF Hashtags(fn_in.viral_insights).n > 0
                          THEN <<<<"hashtags">>>> ELSE <<>>
           IN  /\ (FullLen(fn_in, 1) <= 280)
                    => /\ lines = <<hdr, <<"location", "address">>,
                                    <<"tracking">>, cta>> \o tagline
                       /\ TextLen(text) = FullLen(fn_in, 1)
                       /\ (fn_in.viral_insights.has_tags /\ Len(tags) >= 3)
                            => text[Len(text)].n
                                 = tags[1] + tags[2] + tags[3] + 3 + 2
               /\ (FullLen(fn_in, 1) > 280 /\ FullLen(fn_in, 0) <= 280)
                    => /\ lines = <<hdr, <<"location", "address">>,
                                    <<"tracking">>>> \o tagline
                       /\ TextLen(text) = FullLen(fn_in, 0)
               /\ (FullLen(fn_in, 0) > 280)
                    => /\ \A i \in DOMAIN lines :
                             /\ lines[i] # cta
                             /\ lines[i] # <<"location", "address">>
                       /\ lines[1] = hdr
                       /\ TextLen(text) = Min({280, short_len})
                       /\ (short_len <= 280)
                            => lines = <<hdr, <<"location", "short_address">>,
                                         <<"tracking">>>> \o tagline

\* C33 witness: the five lines are longer than 280 units and the four
\* lines without the call to action are not; the post holds the full
\* address and no call to action.
C33_Witness ==
    /\ fn_in # UNSET
    /\ fn_in.fn = "_generate_optimized_post"
    /\ fn_out # UNSET
    /\ FullLen(fn_in, 1) > 280
    /\ FullLen(fn_in, 0) <= 280
    /\ LinesOf(fn_out.texts[1])
          = <<<<"header", fn_in.viral_insights.emoji_usage, fn_in.category>>,
              <<"location", "address">>, <<"tracking">>, <<"hashtags">>>>

\* C34: for a city that no live API serves (any city but San Francisco
\* with an API key), _submit_to_city returns success with a generated
\* tracking number, prefix-year-six digits, which is not null.
C34_GeneratedNumberWithoutBackend ==
    (fn_in # UNSET /\ fn_in.fn = "_submit_to_city" /\ fn_out # UNSET
     /\ ~(fn_in.city = "San Francisco" /\ fn_in.sf_311_api_key))
        => /\ fn_out.success
           /\ fn_out.tracking_number # NullId
           /\ fn_out.tracking_number.kind = "generated"
           /\ fn_out.tracking_number.prefix # ""
           /\ fn_out.tracking_number.len = 6

\* C34 witness: Austin has no API; the submission succeeded with a
\* generated number.
C34_Witness ==
    /\ fn_in # UNSET
    /\ fn_in.fn = "_submit_to_city"
    /\ fn_in.city = "Austin"
    /\ fn_out # UNSET
    /\ fn_out.success
    /\ fn_out.method = "demo"
    /\ fn_out.tracking_number.kind = "generated"

\* C39 (as claimed): every category other than "None" that
\* analyze_image_with_groq outputs has a script in category_to_script.
C39_EveryCategoryHasBackend ==
    (fn_in # UNSET /\ fn_in.fn = "analyze_image_with_groq" /\ fn_out # UNSET
     /\ fn_out.category # "None")
        => fn_out.category \in category_to_script

\* C40: in a response a social post URL comes with a tracking number, a
\* tracking number comes with the status "submitted", and a response with
\* status "rejected" or "error" has no issue type, reporting URL, tracking
\* number or social post URL.
C40_ResponseFieldsConsistent ==
    (response # UNSET)
        => /\ (response.social_post_url # NULL)
                => response.tracking_number # NullId
           /\ (response.tracking_number # NullId)
                => response.status = "submitted"
           /\ (response.status \in {"rejected", "error"})
                => /\ response.issue_type = NULL
                   /\ response.reporting_url = NULL
                   /\ response.tracking_number = NullId
                   /\ response.social_post_url = NULL

\* C40 witness: a run returned a response with a social post URL, a
\* tracking number and the status "submitted".
C40_Witness ==
    /\ pc = "returned"
    /\ response.social_post_url # NULL
    /\ response.tracking_number # NullId
    /\ response.status = "submitted"

\* C38 (as claimed): once a run has returned, get_report_status of the
\* tracking_id of the response returns that response.
C38_LookupByReturnedId ==
    (pc = "returned")
        => /\ get_report_status(response.tracking_id).status_code = 200
           /\ get_report_status(response.tracking_id).report = response

\* The largest number of steps a run can still take: the stages that lie
\* ahead of it, and the polling attempts it has left.
StepsLeft ==
    CASE Terminal -> 0
      [] pc = "storing" -> 1
      [] pc = "amplifying" -> 2
      [] pc = "submitting" -> 3
      [] pc = "polling" -> 4 + (max_retries - search.attempt)
      [] pc = "search" -> 5 + max_retries
      [] pc = "agent3" -> 6 + max_retries
      [] pc = "agent2" -> 7 + max_retries
      [] pc = "classifying" -> 8 + max_retries
      [] pc = "idle" -> 9 + max_retries

\* C37: every run of the pipeline ends after finitely many steps: each step
\* (a call that returned or timed out) lowers the number of steps the run
\* can still take, which is never negative and is 0 only when the run has
\* returned its response or left the handler with an HTTP error; polling
\* never goes past its 30 attempts.
C37_EveryRunTerminates ==
    [][/\ StepsLeft' < StepsLeft
       /\ StepsLeft' >= 0
       /\ (StepsLeft' = 0) <=> (pc' \in {"returned", "raised"})
       /\ (pc' = "polling") => search'.attempt <= 30]_vars

\* C37 witness: a run polled until its attempts were used up and ended.
C37_Witness ==
    /\ Terminal
    /\ form_search_result # UNSET
    /\ form_search_result.error = "results not ready"
    /\ Len(calls) >= 3

\* The response a run gives when it runs alone: a function of the run's
\* tracking id and inputs only.
SoloResponse(run) ==
    LET a == analyze_image_with_groq(run.input.raw, RunConfidence,
                                     DefaultThreshold)
        found == SearchResult(run.input.data)
        pr == submit_form(a.category, run.input.script)
        post == publish_civic_issue_to_social_media(run.input.published)
    IN  IF IsRejected(a) THEN RejectedResponse(run.tracking_id)
        ELSE SubmissionResponse(
                run.tracking_id, a, found.top_link.url, pr,
                IF pr.success /\ Truthy(pr.tracking_number) /\ post.success
                THEN post.post_url ELSE NULL)

\* C35: once the form-automation subprocess has been launched, a
\* cancellation of the run neither kills it nor leaves it behind: while the
\* process runs the run stays in subprocess.run, it leaves it only when the
\* process has exited or was ended by its own timeout, never into the
\* cancelled state, and a run is cancelled only with no process running.
C35_NoCancelWhileProcessRuns ==
    [][\A r \in RunIds :
        /\ (runs'[r].process = "running") => (runs'[r].pc = "subprocess")
        /\ (runs[r].pc = "subprocess" /\ runs'[r].pc # "subprocess") =>
              /\ runs'[r].pc \in {"amplifying", "storing"}
              /\ runs'[r].process \in {"exited", "killed_at_timeout"}
              /\ (runs'[r].process = "killed_at_timeout")
                    <=> (runs[r].input.script.kind = "timeout")
        /\ (runs'[r].pc = "cancelled") =>
              /\ runs'[r].process \in {"none", "exited", "killed_at_timeout"}
              /\ runs[r].pc # "subprocess"]_vars

\* A cancellation was requested while the process runs.
C35_Witness ==
    \E r \in RunIds :
        /\ runs # <<>>
        /\ runs[r].pc = "subprocess"
        /\ runs[r].process = "running"
        /\ runs[r].cancel_requested

\* C36: under every interleaving of two runs, the response a run returns is
\* the one it gives alone, the report kept under its id is that response,
\* its row in the store is the row of that response, the store holds one
\* row for each insert, and the two runs have different ids.
C36_RunsDoNotInterfere ==
    runs # <<>> =>
        /\ \A r \in RunIds :
              runs[r].pc = "returned" =>
                 /\ runs[r].response = SoloResponse(runs[r])
                 /\ get_report_status(runs[r].tracking_id) =
                        [status_code |-> 200,
                         report |-> SoloResponse(runs[r])]
                 /\ runs[r].inserted =>
                        \E i \in 1..Len(store) :
                            store[i] = DbRecord(SoloResponse(runs[r]))
        /\ Len(store) = Cardinality({r \in RunIds : runs[r].inserted})
        /\ \A r, q \in RunIds :
              (r # q /\ runs[r].pc # "idle" /\ runs[q].pc # "idle") =>
                 runs[r].tracking_id # runs[q].tracking_id

\* Both runs returned and stored, with different kinds of issue.
C36_Witness ==
    /\ runs # <<>>
    /\ \A r \in RunIds : runs[r].pc = "returned" /\ runs[r].inserted
    /\ runs[1].response.issue_type # runs[2].response.issue_type
    /\ runs[1].response.status # runs[2].response.status

====
